---- MODULE Spec2Model ----
(***************************************************************************)
(* A model of the nuScenes -> XVIZ converters (converter_v1, converter_v2, *)
(* convert_v3) and of XVIZMetadataBuilder.                                 *)
(*                                                                         *)
(* Numbers.  Timestamps are integer microseconds as in the record store.   *)
(* Float results (seconds, velocities, predicted positions) are exact      *)
(* rationals [n, d] in lowest terms with d > 0, so that a division by 1e6  *)
(* is a real division and dividing twice differs from dividing once.       *)
(* Rotations are quarter turns about z (yaw = 0..3 times 90 degrees),      *)
(* which rotate integer and rational vectors exactly.                      *)
(***************************************************************************)
EXTENDS Integers, Sequences, FiniteSets, TLC

VARIABLES
    variant,              \* which converter package runs: "v1", "v2", "v3"
    frames,               \* the scene's sample chain in the record store
    config,               \* the YAML configuration
    pc,                   \* position of the scene conversion
    index,                \* loop variable i of the frame loop
    metadata,             \* the metadata message built by get_metadata
    xb,                   \* the XVIZBuilder content of the frame being converted
    written,              \* what the XVIZGLBWriter has been given, in order
    object_trajectories,  \* v2 AnnotationConverter.object_trajectories
    future_trajectories,  \* v2 FutureAnnoConverter.object_trajectories
    anns_by_frame,        \* v1 AnnotationConverter.anns_by_frame
    pose_by_frames,       \* v1 CoordinateConverter.pose_by_frames / v2 poses_by_frame
    call,                 \* the converter method last called directly, with its arguments
    environment           \* the sensor files and map layers present at the last frame conversion

vars == <<variant, frames, config, pc, index, metadata, xb, written,
          object_trajectories, future_trajectories, anns_by_frame, pose_by_frames,
          call, environment>>

----------------------------------------------------------------------------
(* Bounds of the model *)

MaxFrames == 3
MaxTrackFrames == 3

----------------------------------------------------------------------------
(* Exact arithmetic *)

Abs(x) == IF x < 0 THEN -x ELSE x

RECURSIVE Gcd(_, _)
Gcd(a, b) == IF b = 0 THEN Abs(a) ELSE Gcd(Abs(b), Abs(a) % Abs(b))

Min(a, b) == IF a <= b THEN a ELSE b

\* a rational in lowest terms
Rat(n, d) == LET g == Gcd(n, d) IN [n |-> n \div g, d |-> d \div g]

\* x / k for a rational x and a positive integer k (python's x / k)
RatDiv(x, k) == LET g == Gcd(x.n, k) IN [n |-> x.n \div g, d |-> x.d * (k \div g)]

Micro == 1000000

\* python's  t / 1e6
DivMicro(x) == RatDiv(x, Micro)

\* whether the emitted seconds value e is the raw microsecond value divided
\* by 1e6 exactly once:  e * 1e6 = raw
IsSecondsOf(e, raw) ==
    LET g == Gcd(e.d, Micro)
    IN  e.d \div g = 1 /\ e.n * (Micro \div g) = raw

\* 3-vectors of integers
VAdd(p, q) == <<p[1] + q[1], p[2] + q[2], p[3] + q[3]>>
VSub(p, q) == <<p[1] - q[1], p[2] - q[2], p[3] - q[3]>>

\* pyquaternion rotate() for a rotation of yaw quarter turns about z
Rotate(yaw, p) ==
    CASE yaw % 4 = 0 -> p
      [] yaw % 4 = 1 -> <<-p[2], p[1], p[3]>>
      [] yaw % 4 = 2 -> <<-p[1], -p[2], p[3]>>
      [] yaw % 4 = 3 -> <<p[2], -p[1], p[3]>>

\* Quaternion.inverse of such a rotation
Inverse(yaw) == (4 - (yaw % 4)) % 4

RECURSIVE Flatten(_)
Flatten(points) ==
    IF points = <<>> THEN <<>> ELSE Head(points) \o Flatten(Tail(points))

Range(s) == {s[k] : k \in DOMAIN s}

----------------------------------------------------------------------------
(* The record store: instances, categories, annotations, frames *)

\* work/convert_v3 and work/converter_v1 CATEGORY_MAPPING
CATEGORY_MAPPING ==
    [c \in {"movable_object.barrier", "vehicle.bicycle", "vehicle.bus.bendy",
            "vehicle.bus.rigid", "vehicle.car", "vehicle.construction",
            "vehicle.motorcycle", "human.pedestrian.adult",
            "human.pedestrian.child", "human.pedestrian.construction_worker",
            "human.pedestrian.police_officer", "movable_object.trafficcone",
            "vehicle.trailer", "vehicle.truck"} |->
        CASE c = "movable_object.barrier" -> "barrier"
          [] c = "vehicle.bicycle" -> "bicycle"
          [] c \in {"vehicle.bus.bendy", "vehicle.bus.rigid"} -> "bus"
          [] c = "vehicle.car" -> "car"
          [] c = "vehicle.construction" -> "construction_vehicle"
          [] c = "vehicle.motorcycle" -> "motorcycle"
          [] c \in {"human.pedestrian.adult", "human.pedestrian.child",
                    "human.pedestrian.construction_worker",
                    "human.pedestrian.police_officer"} -> "pedestrian"
          [] c = "movable_object.trafficcone" -> "traffic_cone"
          [] c = "vehicle.trailer" -> "trailer"
          [] c = "vehicle.truck" -> "truck"]

CATEGORY ==
    <<"barrier", "bicycle", "bus", "car", "construction_vehicle", "motorcycle",
      "pedestrian", "traffic_cone", "trailer", "truck">>

CAMERA_SOURCES ==
    <<"CAM_FRONT", "CAM_FRONT_LEFT", "CAM_FRONT_RIGHT",
      "CAM_BACK", "CAM_BACK_LEFT", "CAM_BACK_RIGHT">>

\* str.lower() of the camera channel names
Lower(cam) ==
    CASE cam = "CAM_FRONT" -> "cam_front"
      [] cam = "CAM_FRONT_LEFT" -> "cam_front_left"
      [] cam = "CAM_FRONT_RIGHT" -> "cam_front_right"
      [] cam = "CAM_BACK" -> "cam_back"
      [] cam = "CAM_BACK_LEFT" -> "cam_back_left"
      [] cam = "CAM_BACK_RIGHT" -> "cam_back_right"

\* dict.get(key): None is modelled by the string "None"
None == "None"
\* CATEGORY_MAPPING.get(name)
MappingGet(name) ==
    IF name \in DOMAIN CATEGORY_MAPPING THEN CATEGORY_MAPPING[name] ELSE None

\* Instance tokens of the record store and the category of each instance
\* (a nuScenes annotation's category_name is that of its instance).
InstanceTokens == {1, 2, 3}
InstanceCategory(i) ==
    CASE i = 1 -> "vehicle.car"
      [] i = 2 -> "animal"
      [] OTHER -> "human.pedestrian.adult"

\* Tokens are opaque unique strings in the store; here annotation tokens are
\* the integers 100 + 10 * frame + position, disjoint from instance tokens.
AnnToken(f, k) == 100 + 10 * f + k

\* Primitive ids: a token followed by a string suffix (python f-strings)
Id(token) == <<token, "">>
IdSuffix(token, suffix) == <<token, suffix>>
NoId == <<0, "">>

\* One sample_annotation record
Annotation(token, inst, translation, velocity, yaw) ==
    [token |-> token, instance_token |-> inst,
     category_name |-> InstanceCategory(inst),
     translation |-> translation, velocity |-> velocity,
     size |-> <<2, 4, 2>>, rotation |-> yaw]

\* One frame of the sample chain: its sample, lidar sample_data and ego_pose
\* records share one key-frame timestamp in microseconds.
Frame(ts, anns, egoTranslation, egoYaw) ==
    [timestamp |-> ts, anns |-> anns,
     ego_pose |-> [translation |-> egoTranslation, rotation |-> egoYaw,
                   timestamp |-> ts]]

----------------------------------------------------------------------------
(* XVIZMetadataBuilder (python/xviz_avs/builder/metadata.py) *)

\* StreamMetadata.Category.Value(category.upper())
CategoryValue(category) ==
    CASE category = "primitive" -> 1
      [] category = "time_series" -> 2
      [] category = "variable" -> 3
      [] category = "annotation" -> 4
      [] category = "future_instance" -> 5
      [] category = "pose" -> 6
      [] OTHER -> 0

\* StreamMetadata(): every field unset (protobuf defaults)
EmptyStream ==
    [category |-> 0, primitive_type |-> None, scalar_type |-> None,
     coordinate |-> None, style |-> None, pose |-> None]

\* XVIZMetadataBuilder._reset
MB_reset(b) ==
    [b EXCEPT !.stream_id = None, !.temp_stream = EmptyStream, !.temp_type = None]

\* protobuf MergeFrom: the fields set in src overwrite those of dst
MergeFrom(dst, src) ==
    [category |-> IF src.category # 0 THEN src.category ELSE dst.category,
     primitive_type |-> IF src.primitive_type # None THEN src.primitive_type
                        ELSE dst.primitive_type,
     scalar_type |-> IF src.scalar_type # None THEN src.scalar_type
                     ELSE dst.scalar_type,
     coordinate |-> IF src.coordinate # None THEN src.coordinate ELSE dst.coordinate,
     style |-> IF src.style # None THEN src.style ELSE dst.style,
     pose |-> IF src.pose # None THEN src.pose ELSE dst.pose]

\* XVIZMetadataBuilder._flush
MB_flush(b) ==
    IF b.stream_id # None
    THEN LET t == b.temp_stream
             stream_data ==
                 IF t.category \in {1, 5} /\ b.temp_type # None
                 THEN [t EXCEPT !.primitive_type = b.temp_type]
                 ELSE IF t.category \in {2, 3} /\ b.temp_type # None
                      THEN [t EXCEPT !.scalar_type = b.temp_type]
                      ELSE t
             old == IF b.stream_id \in DOMAIN b.streams
                    THEN b.streams[b.stream_id] ELSE EmptyStream
             streams == [x \in DOMAIN b.streams \cup {b.stream_id} |->
                            IF x = b.stream_id THEN MergeFrom(old, stream_data)
                            ELSE b.streams[x]]
         IN  MB_reset([b EXCEPT !.streams = streams])
    ELSE MB_reset(b)

\* XVIZMetadataBuilder.__init__
MB_init ==
    [stream_id |-> None, temp_stream |-> EmptyStream, temp_type |-> None,
     streams |-> <<>>, start_time |-> None, end_time |-> None]

\* XVIZMetadataBuilder.stream
MB_stream(b, stream_id) ==
    LET f == IF b.stream_id # None THEN MB_flush(b) ELSE b
    IN  [f EXCEPT !.stream_id = stream_id]

\* XVIZMetadataBuilder.category (string argument)
MB_category(b, category) ==
    [b EXCEPT !.temp_stream.category = CategoryValue(category)]

\* str.upper() of the primitive type names
Upper(t) ==
    CASE t = "polygon" -> "POLYGON"
      [] t = "polyline" -> "POLYLINE"
      [] t = "point" -> "POINT"
      [] t = "circle" -> "CIRCLE"
      [] t = "image" -> "IMAGE"
      [] OTHER -> t

\* XVIZMetadataBuilder.type (string argument)
MB_type(b, t) == [b EXCEPT !.temp_type = Upper(t)]

\* XVIZMetadataBuilder.coordinate
MB_coordinate(b, coordinate) == [b EXCEPT !.temp_stream.coordinate = coordinate]

\* XVIZMetadataBuilder.stream_style (the style is abstracted to a name)
MB_stream_style(b, style) == [b EXCEPT !.temp_stream.style = style]

\* XVIZMetadataBuilder.pose (the transform is abstracted to a name)
MB_pose(b, pose) == [b EXCEPT !.temp_stream.pose = pose]

\* XVIZMetadataBuilder.start_time / end_time
MB_start_time(b, t) == [b EXCEPT !.start_time = t]
MB_end_time(b, t) == [b EXCEPT !.end_time = t]

\* get_data without its flush: the last stream's declaration is lost
MB_get_data_noflush(b) ==
    [streams |-> b.streams, start_time |-> b.start_time, end_time |-> b.end_time]

\* XVIZMetadataBuilder.get_data / get_message: the metadata message
MB_get_data(b) ==
    LET f == MB_flush(b)
    IN  [streams |-> f.streams, start_time |-> f.start_time, end_time |-> f.end_time]

\* One call of the fluent interface, as a record [op, arg]
Call(op, arg) == [op |-> op, arg |-> arg]

MB_apply(b, c) ==
    CASE c.op = "stream" -> MB_stream(b, c.arg)
      [] c.op = "category" -> MB_category(b, c.arg)
      [] c.op = "type" -> MB_type(b, c.arg)
      [] c.op = "coordinate" -> MB_coordinate(b, c.arg)
      [] c.op = "stream_style" -> MB_stream_style(b, c.arg)
      [] c.op = "style_class" -> b
      [] c.op = "pose" -> MB_pose(b, c.arg)

RECURSIVE MB_run(_, _)
MB_run(b, calls) ==
    IF calls = <<>> THEN b
    ELSE IF Len(calls) = 1 THEN MB_apply(b, calls[1])
    ELSE LET h == Len(calls) \div 2
             mid == MB_run(b, SubSeq(calls, 1, h))
             rest == SubSeq(calls, h + 1, Len(calls))
         IN  \* the builder after the first half is computed before the rest runs
             CASE mid.stream_id = None -> MB_run(mid, rest)
               [] OTHER -> MB_run(mid, rest)

----------------------------------------------------------------------------
(* get_metadata of every converter, as the builder calls it makes *)

Cat(c) == Call("category", c)
Typ(t) == Call("type", t)
Coord(c) == Call("coordinate", c)
Style(s) == Call("stream_style", s)
Strm(id) == Call("stream", id)

\* convert_v3 PoseConverter.get_metadata
V3PoseMetadata ==
    <<Strm("/vehicle_pose"), Cat("pose"),
      Strm("/vehicle/trajectory"), Cat("primitive"), Typ("polyline"),
      Coord("IDENTITY"), Style("trajectory")>>

\* convert_v3 LidarConverter.get_metadata
V3LidarMetadata ==
    <<Strm("/lidar/points"), Cat("primitive"), Typ("point"),
      Coord("VEHICLE_RELATIVE"), Style("lidar")>>

\* a lookup that falls back to a class instead of None
V3MapCategory_default(nuscenes_category) ==
    "/annotations/" \o (IF nuscenes_category \in DOMAIN CATEGORY_MAPPING
                        THEN CATEGORY_MAPPING[nuscenes_category] ELSE "car")

\* convert_v3 AnnotationConverter._map_nuscenes_category
V3MapCategory(nuscenes_category) ==
    LET category == MappingGet(nuscenes_category)
    IN  IF category # None THEN "/annotations/" \o category ELSE None

\* convert_v3 AnnotationConverter.get_metadata
V3AnnotationMetadata ==
    <<Strm("/objects/tracking_point"), Cat("primitive"), Typ("circle"),
      Style("tracking_point"), Coord("IDENTITY")>>
    \o Flatten([k \in DOMAIN CATEGORY |->
         LET stream_name == "/annotations/" \o CATEGORY[k]
         IN  <<Strm(stream_name), Cat("primitive"), Typ("polygon"),
               Coord("IDENTITY"), Style("extruded"),
               Call("style_class", stream_name),
               Strm(stream_name \o "/trajectory"), Cat("primitive"),
               Typ("polyline"), Coord("IDENTITY"), Style("category_stroke")>>])

\* convert_v3 MapConverter.get_metadata
V3MapMetadata ==
    <<Strm("/map/divider"), Cat("primitive"), Typ("polyline"),
      Coord("VEHICLE_RELATIVE"), Style("divider"),
      Strm("/map/ped_crossing"), Cat("primitive"), Typ("polyline"),
      Coord("VEHICLE_RELATIVE"), Style("ped_crossing"),
      Strm("/map/boundary"), Cat("primitive"), Typ("polyline"),
      Coord("VEHICLE_RELATIVE"), Style("boundary"),
      Strm("/map/drivable_area"), Cat("primitive"), Typ("polygon"),
      Coord("VEHICLE_RELATIVE"), Style("drivable_area")>>

\* convert_v3 CameraConverter.get_metadata
V3CameraMetadata ==
    Flatten([k \in DOMAIN CAMERA_SOURCES |->
        <<Strm("/camera/" \o Lower(CAMERA_SOURCES[k])), Cat("primitive"),
          Typ("image"), Coord("VEHICLE_RELATIVE")>>])

\* converter_v1 CoordinateConverter.get_metadata
V1CoordinateMetadata ==
    <<Strm("/ego_pose"), Cat("pose"),
      Strm("/ego/trajectory"), Cat("primitive"), Typ("polyline"), Coord("IDENTITY")>>

\* converter_v1 AnnotationConverter.get_metadata
V1AnnotationMetadata ==
    Flatten([k \in DOMAIN CATEGORY |->
        <<Strm("/annotations/" \o CATEGORY[k]), Cat("primitive"), Typ("polygon"),
          Coord("IDENTITY"),
          Strm("/annotations/" \o CATEGORY[k] \o "/trajectory"), Cat("primitive"),
          Typ("polygon"), Coord("IDENTITY")>>])

\* converter_v1 LidarConverter.get_metadata
V1LidarMetadata ==
    <<Strm("/lidar"), Cat("primitive"), Typ("point"), Coord("VEHICLE_RELATIVE"),
      Call("pose", "lidar_calibration")>>

\* converter_v1 CameraConverter.get_metadata
V1CameraMetadata ==
    Flatten([k \in DOMAIN CAMERA_SOURCES |->
        <<Strm("/camera/" \o Lower(CAMERA_SOURCES[k])), Cat("primitive"),
          Typ("image")>>])

\* converter_v1 FutureAnnoConverter.get_metadata
V1FutureMetadata ==
    <<Strm("/objects/futures"), Cat("future_instance"), Typ("polygon"),
      Coord("IDENTITY")>>

\* converter_v2 PoseConverter.get_metadata
V2PoseMetadata(show_vehicle_trajectory) ==
    <<Strm("/vehicle_pose"), Cat("pose")>>
    \o (IF show_vehicle_trajectory
        THEN <<Strm("/vehicle/trajectory"), Cat("primitive"), Typ("polyline"),
               Coord("IDENTITY")>>
        ELSE <<>>)

\* converter_v2 LidarConverter.get_metadata
V2LidarMetadata ==
    <<Strm("/lidar/points"), Cat("primitive"), Typ("point"),
      Coord("VEHICLE_RELATIVE"), Call("pose", "lidar_calibration"), Style("lidar")>>

\* converter_v2 CameraConverter.get_metadata
V2CameraMetadata ==
    Flatten([k \in DOMAIN CAMERA_SOURCES |->
        <<Strm("/camera/" \o Lower(CAMERA_SOURCES[k])), Cat("primitive"),
          Typ("image"), Coord("VEHICLE_RELATIVE"),
          Call("pose", "camera_calibration")>>])

\* converter_v2 AnnotationConverter.get_metadata
V2AnnotationMetadata ==
    <<Strm("/object/boxes"), Cat("primitive"), Typ("polygon"),
      Coord("VEHICLE_RELATIVE"), Style("boxes"),
      Strm("/object/trajectory"), Cat("primitive"), Typ("polyline"),
      Coord("VEHICLE_RELATIVE"), Style("trajectory")>>

\* converter_v2 FutureAnnoConverter.get_metadata
V2FutureMetadata ==
    <<Strm("/object/future_trajectory"), Cat("primitive"), Typ("polyline"),
      Coord("VEHICLE_RELATIVE"), Style("future_trajectory"),
      Strm("/object/future_boxes"), Cat("primitive"), Typ("polygon"),
      Coord("VEHICLE_RELATIVE"), Style("future_boxes")>>

\* The builder calls of all converters of a variant, in the order of its
\* converters list (NuScenesConverter.initialize / NuscenesConverter.__init__)
MetadataCalls(v, cfg) ==
    CASE v = "v3" -> V3PoseMetadata \o V3LidarMetadata \o V3AnnotationMetadata
                     \o V3MapMetadata \o V3CameraMetadata
      [] v = "v1" -> V1CoordinateMetadata \o V1AnnotationMetadata \o V1LidarMetadata
                     \o V1CameraMetadata \o V1FutureMetadata
      [] v = "v2" -> V2PoseMetadata(cfg.show_vehicle_trajectory) \o V2LidarMetadata
                     \o V2CameraMetadata \o V2AnnotationMetadata \o V2FutureMetadata

\* The frame timestamps the top-level converter keeps: v1 and v3 store
\* lidar_data['timestamp'] / 1e6 per frame, v2 stores the raw microseconds
\* and divides in get_metadata.
FrameSeconds(fs, k) == DivMicro(Rat(fs[k].timestamp, 1))

\* NuScenesConverter.get_metadata (v3), NuscenesConverter.get_metadata (v1, v2)
GetMetadata(v, fs, cfg) ==
    LET b0 == MB_init
        b1 == IF fs # <<>>
              THEN MB_end_time(MB_start_time(b0, FrameSeconds(fs, 1)),
                               FrameSeconds(fs, Len(fs)))
              ELSE b0
    IN  MB_get_data(MB_run(b1, MetadataCalls(v, cfg)))

----------------------------------------------------------------------------
(* The XVIZBuilder content of one frame message *)

NoTime == [n |-> 0, d |-> 0]

\* xb.primitive(stream).<kind>(vertices).id(id)
Prim(stream, kind, id, vertices) ==
    [stream |-> stream, kind |-> kind, id |-> id, vertices |-> vertices,
     timestamp |-> NoTime]

\* xb.pose(stream).timestamp(t).position(x, y, z)
PosePrim(stream, t, position) ==
    [stream |-> stream, kind |-> "pose", id |-> NoId, vertices |-> position,
     timestamp |-> t]

\* XVIZBuilder(metadata=...): nothing emitted, no message timestamp
EmptyBuilder == [timestamp |-> NoTime, prims |-> <<>>]

Emit(b, prim) == [b EXCEPT !.prims = Append(@, prim)]

----------------------------------------------------------------------------
(* converter_v2: object tracks (the pre-scan) *)

\* list.sort(key=lambda x: x['timestamp']): a stable sort
RECURSIVE InsertByTimestamp(_, _)
InsertByTimestamp(sorted, x) ==
    IF sorted = <<>> THEN <<x>>
    ELSE IF Head(sorted).timestamp <= x.timestamp
         THEN <<Head(sorted)>> \o InsertByTimestamp(Tail(sorted), x)
         ELSE <<x>> \o sorted

\* a scan that leaves the samples in the order of the appends
SortByTimestamp_unsorted(samples) == samples

\* list.sort(key=lambda x: x['timestamp']): stable
RECURSIVE SortByTimestamp(_)
SortByTimestamp(samples) ==
    IF samples = <<>> THEN <<>>
    ELSE InsertByTimestamp(SortByTimestamp(SubSeq(samples, 1, Len(samples) - 1)),
                           samples[Len(samples)])

\* The track sample appended for annotation ann of a frame
TrackSample(frame, ann) ==
    [timestamp |-> frame.timestamp, translation |-> ann.translation,
     rotation |-> ann.rotation, size |-> ann.size, velocity |-> ann.velocity]

\* The appends of the scan: frames in order, each frame's annotations in order
RECURSIVE ScanAnnotations(_, _, _)
ScanAnnotations(trajectories, frame, anns) ==
    IF anns = <<>> THEN trajectories
    ELSE LET ann == Head(anns)
             tok == ann.instance_token
             old == IF tok \in DOMAIN trajectories THEN trajectories[tok] ELSE <<>>
             new == [t \in DOMAIN trajectories \cup {tok} |->
                        IF t = tok THEN Append(old, TrackSample(frame, ann))
                        ELSE trajectories[t]]
         IN  ScanAnnotations(new, frame, Tail(anns))

RECURSIVE ScanFrames(_, _)
ScanFrames(trajectories, fs) ==
    IF fs = <<>> THEN trajectories
    ELSE ScanFrames(ScanAnnotations(trajectories, Head(fs), Head(fs).anns), Tail(fs))

\* a pre-scan that stops after the first frame
BuildObjectTrajectories_first_frame(fs) ==
    LET scanned == ScanFrames(<<>>, SubSeq(fs, 1, 1))
    IN  [t \in DOMAIN scanned |-> SortByTimestamp(scanned[t])]

\* AnnotationConverter._build_object_trajectories and
\* FutureAnnoConverter._build_object_trajectories (the latter also keeps the
\* declared velocity, which TrackSample carries for both)
BuildObjectTrajectories(fs) ==
    LET scanned == ScanFrames(<<>>, fs)
    IN  [t \in DOMAIN scanned |-> SortByTimestamp(scanned[t])]

\* AnnotationConverter._global_to_vehicle / utils.global_to_vehicle_frame
GlobalToVehicle(point, ego_pose) ==
    Rotate(Inverse(ego_pose.rotation), VSub(point, ego_pose.translation))

\* utils.vehicle_to_global_frame
VehicleToGlobal(point, ego_pose) ==
    VAdd(Rotate(ego_pose.rotation, point), ego_pose.translation)

TimeWindow == 3000000

\* a window that leaves out the sample exactly TimeWindow old
RECURSIVE SelectSeq2_exclusive(_, _, _)
SelectSeq2_exclusive(samples, lo, hi) ==
    IF samples = <<>> THEN <<>>
    ELSE IF hi >= Head(samples).timestamp /\ Head(samples).timestamp > lo
         THEN <<Head(samples)>> \o SelectSeq2_exclusive(Tail(samples), lo, hi)
         ELSE SelectSeq2_exclusive(Tail(samples), lo, hi)

\* the loop of _convert_trajectory:  current >= ts >= current - 3_000_000
RECURSIVE SelectSeq2(_, _, _)
SelectSeq2(samples, lo, hi) ==
    IF samples = <<>> THEN <<>>
    ELSE IF hi >= Head(samples).timestamp /\ Head(samples).timestamp >= lo
         THEN <<Head(samples)>> \o SelectSeq2(Tail(samples), lo, hi)
         ELSE SelectSeq2(Tail(samples), lo, hi)

\* AnnotationConverter._convert_trajectory: the samples it selects
PastTrajectory(trajectories, instance_token, current_timestamp) ==
    IF instance_token \notin DOMAIN trajectories THEN <<>>
    ELSE SelectSeq2(trajectories[instance_token],
                    current_timestamp - TimeWindow, current_timestamp)

\* AnnotationConverter._convert_trajectory: what it emits into the builder
ConvertTrajectory(b, trajectories, ann, current_timestamp, ego_pose) ==
    LET past == PastTrajectory(trajectories, ann.instance_token, current_timestamp)
    IN  IF Len(past) < 2 THEN b
        ELSE Emit(b, Prim("/object/trajectory", "polyline", Id(ann.instance_token),
                 Flatten([k \in DOMAIN past |->
                            GlobalToVehicle(past[k].translation, ego_pose)])))

----------------------------------------------------------------------------
(* converter_v2: the future-motion predictor (furture_anno_converter.py) *)

\* Rational 3-vectors with a common denominator, in lowest terms
RV(n, d) ==
    LET g == Gcd(Gcd(n[1], n[2]), Gcd(n[3], d))
    IN  [n |-> <<n[1] \div g, n[2] \div g, n[3] \div g>>, d |-> d \div g]

\* FutureAnnoConverter.__init__
prediction_horizon == 3
prediction_steps == 6
time_step == Rat(prediction_horizon, prediction_steps)

\* np.linalg.norm(v) < 0.1 for a rational vector:  |n|^2 * 100 < d^2
NormBelowTenth(v) ==
    (v.n[1] * v.n[1] + v.n[2] * v.n[2] + v.n[3] * v.n[3]) * 100 < v.d * v.d

\* "total_time < 0.01" with total_time = microseconds / 1e6
MinTimeDeltaMicro == 10000

NoVelocity == [n |-> <<0, 0, 0>>, d |-> 0]

\* an estimate that never reads the declared velocity
EstimateVelocity_undeclared(trajectory, cur) ==
    LET lookback == Min(3, cur)
        start == cur - lookback + 1
        total_displacement ==
            VSub(trajectory[cur].translation, trajectory[start].translation)
        total_micro == trajectory[cur].timestamp - trajectory[start].timestamp
    IN  IF lookback < 2 THEN NoVelocity
        ELSE IF total_micro < MinTimeDeltaMicro THEN NoVelocity
        ELSE RV(<<total_displacement[1] * Micro, total_displacement[2] * Micro, 0>>,
                total_micro)

\* an estimate over the whole track up to the current sample
EstimateVelocity_whole_track(trajectory, cur) ==
    LET total_displacement ==
            VSub(trajectory[cur].translation, trajectory[1].translation)
        total_micro == trajectory[cur].timestamp - trajectory[1].timestamp
    IN  IF trajectory[cur].velocity # <<0, 0, 0>>
        THEN RV(<<trajectory[cur].velocity[1], trajectory[cur].velocity[2], 0>>, 1)
        ELSE IF cur < 2 THEN NoVelocity
        ELSE IF total_micro < MinTimeDeltaMicro THEN NoVelocity
        ELSE RV(<<total_displacement[1] * Micro, total_displacement[2] * Micro, 0>>,
                total_micro)

\* FutureAnnoConverter._estimate_velocity; cur is the 1-based index of the
\* current sample; NoVelocity stands for python's None
EstimateVelocity(trajectory, cur) ==
    LET current_point == trajectory[cur]
        lookback == Min(3, cur)
        start == cur - lookback + 1
        total_displacement ==
            VSub(trajectory[cur].translation, trajectory[start].translation)
        total_micro == trajectory[cur].timestamp - trajectory[start].timestamp
    IN  IF current_point.velocity # <<0, 0, 0>>
        THEN RV(<<current_point.velocity[1], current_point.velocity[2], 0>>, 1)
        ELSE IF lookback < 2 THEN NoVelocity
        ELSE IF total_micro < MinTimeDeltaMicro THEN NoVelocity
        ELSE RV(<<total_displacement[1] * Micro, total_displacement[2] * Micro, 0>>,
                total_micro)

\* the first index whose timestamp is current_timestamp, 0 when there is none
CurrentIndex(trajectory, current_timestamp) ==
    LET hits == {k \in DOMAIN trajectory : trajectory[k].timestamp = current_timestamp}
    IN  IF hits = {} THEN 0 ELSE CHOOSE k \in hits : \A j \in hits : k <= j

\* steps counted from zero: the first predicted position is the current one
StepDt_from_zero(step) == Rat((step - 1) * time_step.n, time_step.d)

\* dt = step * self.time_step
StepDt(step) == Rat(step * time_step.n, time_step.d)

\* current_position + velocity * dt
FuturePos(current_position, velocity, dt) ==
    LET den == velocity.d * dt.d
    IN  RV(<<current_position[1] * den + velocity.n[1] * dt.n,
             current_position[2] * den + velocity.n[2] * dt.n,
             current_position[3] * den + velocity.n[3] * dt.n>>, den)

\* FutureAnnoConverter._predict_future_positions; <<>> stands for None
PredictFuturePositions(trajectories, instance_token, current_timestamp) ==
    IF instance_token \notin DOMAIN trajectories THEN <<>>
    ELSE LET trajectory == trajectories[instance_token]
             cur == CurrentIndex(trajectory, current_timestamp)
         IN  IF cur = 0 THEN <<>>
             ELSE LET velocity == EstimateVelocity(trajectory, cur)
                  IN  IF velocity = NoVelocity \/ NormBelowTenth(velocity) THEN <<>>
                      ELSE [step \in 1..prediction_steps |->
                             [timestamp |-> current_timestamp
                                  + (StepDt(step).n * Micro) \div StepDt(step).d,
                              translation |-> FuturePos(trajectory[cur].translation,
                                                        velocity, StepDt(step)),
                              rotation |-> trajectory[cur].rotation]]

\* FutureAnnoConverter._global_to_vehicle on a rational point
GlobalToVehicleRV(point, ego_pose) ==
    LET t == ego_pose.translation
    IN  RV(Rotate(Inverse(ego_pose.rotation),
                  <<point.n[1] - t[1] * point.d, point.n[2] - t[2] * point.d,
                    point.n[3] - t[3] * point.d>>), point.d)

\* ndarray.tolist() of a rational point: its three coordinates
Coordinates(point) ==
    <<Rat(point.n[1], point.d), Rat(point.n[2], point.d), Rat(point.n[3], point.d)>>

\* the id f"{instance_token}_future" of the predicted path
FutureTrajectoryId(instance_token) == IdSuffix(instance_token, "_future")

\* the id f"{instance_token}_future_box" of the predicted footprint
FutureBoxId(instance_token) == IdSuffix(instance_token, "_future_box")

\* FutureAnnoConverter._convert_future_trajectory
ConvertFutureTrajectory(b, instance_token, future_positions, ego_pose) ==
    Emit(b, Prim("/object/future_trajectory", "polyline",
                 FutureTrajectoryId(instance_token),
                 Flatten([k \in DOMAIN future_positions |->
                     Coordinates(GlobalToVehicleRV(future_positions[k].translation,
                                                   ego_pose))])))

\* a footprint for every predicted step instead of the final one
ConvertFutureBoxes_every_step(b, instance_token, future_positions, size, ego_pose) ==
    [b EXCEPT !.prims = @ \o
        [k \in DOMAIN future_positions |->
            Prim("/object/future_boxes", "polygon", FutureBoxId(instance_token),
                 Coordinates(GlobalToVehicleRV(future_positions[k].translation,
                                               ego_pose))
                 \o <<Rat(size[1], 1), Rat(size[2], 1), Rat(size[3], 1),
                      Rat(0, 1)>>)]]

\* FutureAnnoConverter._convert_future_boxes: the polygon's seven numbers are
\* the vehicle-frame centre, the size and the yaw of the final step
ConvertFutureBoxes(b, instance_token, future_positions, size, ego_pose) ==
    IF Len(future_positions) = 0 THEN b
    ELSE LET final_position == future_positions[Len(future_positions)]
             vehicle_pos == GlobalToVehicleRV(final_position.translation, ego_pose)
             yaw == (Inverse(ego_pose.rotation) + final_position.rotation) % 4
         IN  Emit(b, Prim("/object/future_boxes", "polygon",
                          FutureBoxId(instance_token),
                          Coordinates(vehicle_pos)
                          \o <<Rat(size[1], 1), Rat(size[2], 1), Rat(size[3], 1),
                               Rat(yaw, 1)>>))

\* a loop that ends at the first instance without a prediction
RECURSIVE FutureConvertAnns_until_skip(_, _, _, _, _)
FutureConvertAnns_until_skip(b, trajectories, anns, current_timestamp, ego_pose) ==
    IF anns = <<>> THEN b
    ELSE LET ann == Head(anns)
             future_positions ==
                 PredictFuturePositions(trajectories, ann.instance_token,
                                        current_timestamp)
         IN  IF Len(future_positions) = 0 THEN b
             ELSE FutureConvertAnns_until_skip(
                      ConvertFutureBoxes(
                          ConvertFutureTrajectory(b, ann.instance_token,
                                                  future_positions, ego_pose),
                          ann.instance_token, future_positions, ann.size, ego_pose),
                      trajectories, Tail(anns), current_timestamp, ego_pose)

\* FutureAnnoConverter.convert_message: the loop over the frame's annotations
RECURSIVE FutureConvertAnns(_, _, _, _, _)
FutureConvertAnns(b, trajectories, anns, current_timestamp, ego_pose) ==
    IF anns = <<>> THEN b
    ELSE LET ann == Head(anns)
             future_positions ==
                 PredictFuturePositions(trajectories, ann.instance_token,
                                        current_timestamp)
             b1 == IF Len(future_positions) = 0 THEN b
                   ELSE ConvertFutureBoxes(
                            ConvertFutureTrajectory(b, ann.instance_token,
                                                    future_positions, ego_pose),
                            ann.instance_token, future_positions, ann.size, ego_pose)
         IN  FutureConvertAnns(b1, trajectories, Tail(anns), current_timestamp,
                               ego_pose)

\* FutureAnnoConverter.convert_message
FutureConvertMessage(b, trajectories, frame) ==
    FutureConvertAnns(b, trajectories, frame.anns, frame.timestamp, frame.ego_pose)

----------------------------------------------------------------------------
(* convert_v3: the converters' convert(frame_index, xb) *)

\* The environment of one frame conversion: which sensor files exist on disk
\* and which map layers the map query returns geometry for.
MapLayers == <<"/map/divider", "/map/ped_crossing", "/map/boundary", "/map/drivable_area">>

\* The ego positions of frames first..last, as a list of [x, y, z] points
EgoPositions(fs, first, last) ==
    [k \in 1..(last - first + 1) |-> fs[first + k - 1].ego_pose.translation]

\* PoseConverter._get_vehicle_trajectory (frame_index is 0-based); lookahead
\* is the parameter's default, 6
V3Lookahead == 6

\* a trajectory that runs to the last frame of the scene
V3GetVehicleTrajectory_to_end(fs, frame_index) ==
    EgoPositions(fs, frame_index + 1, Len(fs))

V3GetVehicleTrajectory(fs, frame_index) ==
    LET end_index == Min(Len(fs), frame_index + V3Lookahead)
    IN  EgoPositions(fs, frame_index + 1, end_index)

\* convert_v3 PoseConverter.convert
V3PoseConvert(b, fs, frame_index) ==
    LET frame == fs[frame_index + 1]
        b1 == Emit(b, PosePrim("/vehicle_pose", FrameSeconds(fs, frame_index + 1),
                               frame.ego_pose.translation))
        trajectory == V3GetVehicleTrajectory(fs, frame_index)
    IN  IF trajectory # <<>>
        THEN Emit(b1, Prim("/vehicle/trajectory", "polyline", NoId, Flatten(trajectory)))
        ELSE b1

\* convert_v3 LidarConverter.convert; the decoded points are one placeholder point
V3LidarConvert(b, env) ==
    IF ~env.lidar THEN b
    ELSE Emit(b, Prim("/lidar/points", "point", NoId, <<0, 0, 0>>))

\* nuscenes Box.corners() restricted to the bottom face, columns [2, 3, 7, 6],
\* plus the closing repeat of the first vertex (AnnotationConverter._get_3d_bbox)
V3Get3dBbox(annotation) ==
    LET w == annotation.size[1] \div 2
        l == annotation.size[2] \div 2
        h == annotation.size[3] \div 2
        corner(x, y) == VAdd(Rotate(annotation.rotation, <<x, y, -h>>),
                             annotation.translation)
        vertices == <<corner(l, -w), corner(l, w), corner(-l, w), corner(-l, -w)>>
    IN  Append(vertices, vertices[1])

\* the id given to the footprint polygon and the tracking point: ann['token']
V3PolygonId(ann) == Id(ann.token)

\* AnnotationConverter.convert: the loop emitting footprints and tracking points
RECURSIVE V3ConvertAnns(_, _)
V3ConvertAnns(b, anns) ==
    IF anns = <<>> THEN b
    ELSE LET ann == Head(anns)
             category == V3MapCategory(ann.category_name)
             center == ann.translation
             b1 == IF category = None THEN b
                   ELSE Emit(Emit(b, Prim(category, "polygon", V3PolygonId(ann),
                                          Flatten(V3Get3dBbox(ann)))),
                             Prim("/objects/tracking_point", "circle", V3PolygonId(ann),
                                  <<center[1], center[2], 0>>))
         IN  V3ConvertAnns(b1, Tail(anns))

\* the position of the first annotation of the instance in a frame, if any
RECURSIVE FirstOfInstance(_, _)
FirstOfInstance(anns, instance_token) ==
    IF anns = <<>> THEN <<>>
    ELSE IF Head(anns).instance_token = instance_token
         THEN <<<<Head(anns).translation[1], Head(anns).translation[2], 0>>>>
         ELSE FirstOfInstance(Tail(anns), instance_token)

\* AnnotationConverter._add_object_trajectories: the look-ahead trajectory of
\* one instance over frames frame_index .. end_index - 1
V3ObjectTrajectory(fs, frame_index, instance_token) ==
    LET end_index == Min(Len(fs), frame_index + V3Lookahead)
    IN  Flatten([k \in 1..(end_index - frame_index) |->
                    FirstOfInstance(fs[frame_index + k].anns, instance_token)])

RECURSIVE V3AddObjectTrajectories(_, _, _, _)
V3AddObjectTrajectories(b, anns, fs, frame_index) ==
    IF anns = <<>> THEN b
    ELSE LET ann == Head(anns)
             category == V3MapCategory(ann.category_name)
             trajectory == V3ObjectTrajectory(fs, frame_index, ann.instance_token)
             b1 == IF category = None THEN b
                   ELSE IF Len(trajectory) > 1
                        THEN Emit(b, Prim(category \o "/trajectory", "polyline", NoId,
                                          Flatten(trajectory)))
                        ELSE b
         IN  V3AddObjectTrajectories(b1, Tail(anns), fs, frame_index)

\* convert_v3 AnnotationConverter.convert
V3AnnotationConvert(b, fs, frame_index) ==
    LET anns == fs[frame_index + 1].anns
    IN  V3AddObjectTrajectories(V3ConvertAnns(b, anns), anns, fs, frame_index)

\* convert_v3 MapConverter.convert: one primitive per returned geometry; the
\* geometry of a layer is one placeholder segment or triangle
V3MapConvert(b, env) ==
    LET prims == SelectSeq(
            [k \in DOMAIN MapLayers |->
                Prim(MapLayers[k],
                     IF MapLayers[k] = "/map/drivable_area" THEN "polygon" ELSE "polyline",
                     NoId, <<0, 0, 0, 1, 0, 0, 1, 1, 0>>)],
            LAMBDA q : q.stream \in env.map)
    IN  [b EXCEPT !.prims = @ \o prims]

\* convert_v3 CameraConverter.convert: cameras whose file is absent are skipped
V3CameraConvert(b, env) ==
    LET prims == SelectSeq(
            [k \in DOMAIN CAMERA_SOURCES |->
                Prim("/camera/" \o Lower(CAMERA_SOURCES[k]), "image", NoId, <<>>)],
            LAMBDA q : \E c \in env.cams : q.stream = "/camera/" \o Lower(c))
    IN  [b EXCEPT !.prims = @ \o prims]

\* a converter list with the lidar converter ahead of the pose converter
V3ConvertFrame_lidar_first(fs, frame_index, env) ==
    LET b1 == V3LidarConvert(EmptyBuilder, env)
        b2 == V3PoseConvert(b1, fs, frame_index)
        b3 == V3AnnotationConvert(b2, fs, frame_index)
        b4 == V3MapConvert(b3, env)
        b5 == V3CameraConvert(b4, env)
    IN  [ok |-> TRUE, xb |-> b5]

\* convert_v3 NuScenesConverter.convert_frame: the converters in list order
V3ConvertFrame(fs, frame_index, env) ==
    LET b1 == V3PoseConvert(EmptyBuilder, fs, frame_index)
        b2 == V3LidarConvert(b1, env)
        b3 == V3AnnotationConvert(b2, fs, frame_index)
        b4 == V3MapConvert(b3, env)
        b5 == V3CameraConvert(b4, env)
    IN  [ok |-> TRUE, xb |-> b5]

----------------------------------------------------------------------------
(* converter_v1: the converters' __init__ / init and convert(frame_index, xb) *)

\* CoordinateConverter.init: the pose kept per frame
V1PoseByFrames(fs) ==
    [k \in DOMAIN fs |->
        LET timestamp == DivMicro(Rat(fs[k].ego_pose.timestamp, 1))
        IN  [timestamp |-> DivMicro(timestamp),
             position |-> fs[k].ego_pose.translation]]

\* CoordinateConverter._get_ego_trajectory(start_index, end_index)
V1GetEgoTrajectory(poses, start_index, end_index) ==
    Flatten([k \in 1..(end_index - start_index) |-> poses[start_index + k].position])

\* CoordinateConverter.convert
V1CoordinateConvert(b, poses, frame_index) ==
    LET pose == poses[frame_index + 1]
        b1 == Emit(b, PosePrim("/ego_pose", pose.timestamp, pose.position))
        ego_trajectory ==
            V1GetEgoTrajectory(poses, frame_index, Min(Len(poses), frame_index + 7))
    IN  Emit(b1, Prim("/ego/trajectory", "polyline", NoId, ego_trajectory))

\* AnnotationConverter._parse_ann_data
V1ParseAnnData(ann) ==
    LET w == ann.size[1] \div 2
        l == ann.size[2] \div 2
        bounds == <<<<-l, -w, 0>>, <<-l, w, 0>>, <<l, w, 0>>, <<l, -w, 0>>,
                    <<-l, -w, 0>>>>
    IN  [token |-> ann.token, instance_token |-> ann.instance_token,
         category |-> CATEGORY_MAPPING[ann.category_name],
         x |-> ann.translation[1], y |-> ann.translation[2], z |-> ann.translation[3],
         vertices |-> Flatten(bounds)]

\* dict assignment d[key] = value on an insertion-ordered dict, kept as the
\* list of its values (each value holds its key, instance_token)
RECURSIVE DictSet(_, _)
DictSet(d, value) ==
    IF d = <<>> THEN <<value>>
    ELSE IF Head(d).instance_token = value.instance_token
         THEN <<value>> \o Tail(d)
         ELSE <<Head(d)>> \o DictSet(Tail(d), value)

RECURSIVE V1InitFrame(_, _)
V1InitFrame(d, anns) ==
    IF anns = <<>> THEN d
    ELSE IF MappingGet(Head(anns).category_name) = None
         THEN V1InitFrame(d, Tail(anns))
         ELSE V1InitFrame(DictSet(d, V1ParseAnnData(Head(anns))), Tail(anns))

\* AnnotationConverter.init: anns_by_frame
V1AnnsByFrame(fs) == [k \in DOMAIN fs |-> V1InitFrame(<<>>, fs[k].anns)]

\* objs.get(instance_token) on one frame's dict
DictHas(d, instance_token) == \E k \in DOMAIN d : d[k].instance_token = instance_token
DictGet(d, instance_token) ==
    d[CHOOSE k \in DOMAIN d : d[k].instance_token = instance_token]

\* AnnotationConverter._get_obj_trajectory: stops at the first frame without
\* the instance
RECURSIVE V1GetObjTrajectory(_, _, _, _)
V1GetObjTrajectory(byFrame, instance_token, start_index, end_index) ==
    IF start_index >= end_index THEN <<>>
    ELSE IF ~DictHas(byFrame[start_index + 1], instance_token) THEN <<>>
    ELSE LET o == DictGet(byFrame[start_index + 1], instance_token)
         IN  <<o.x, o.y, o.z>>
             \o V1GetObjTrajectory(byFrame, instance_token, start_index + 1, end_index)

\* the id given to the footprint polygon: anno["token"]
V1PolygonId(anno) == Id(anno.token)

RECURSIVE V1ConvertAnns(_, _, _, _)
V1ConvertAnns(b, annos, byFrame, frame_index) ==
    IF annos = <<>> THEN b
    ELSE LET anno == Head(annos)
             stream == "/annotations/" \o anno.category
             b1 == Emit(b, Prim(stream, "polygon", V1PolygonId(anno), anno.vertices))
             anno_trajectory ==
                 V1GetObjTrajectory(byFrame, anno.instance_token, frame_index,
                                    Min(Len(byFrame), frame_index + 7))
             b2 == Emit(b1, Prim(stream \o "/trajectory", "polyline", NoId,
                                 anno_trajectory))
         IN  V1ConvertAnns(b2, Tail(annos), byFrame, frame_index)

\* converter_v1 AnnotationConverter.convert
V1AnnotationConvert(b, byFrame, frame_index) ==
    V1ConvertAnns(b, byFrame[frame_index + 1], byFrame, frame_index)

FUTURE_STEPS == 6

\* converter_v1 FutureAnnoConverter.convert: the annotations of the frames
\* frame_index .. frame_index + FUTURE_STEPS - 1 as future instances
V1FutureConvert(b, fs, byFrame, frame_index) ==
    LET future_frame_limit == Min(frame_index + FUTURE_STEPS, Len(fs))
        prims == Flatten([k \in 1..(future_frame_limit - frame_index) |->
            LET f == frame_index + k
                timestamp == DivMicro(Rat(fs[f].ego_pose.timestamp, 1))
            IN  [j \in DOMAIN byFrame[f] |->
                    [Prim("/objects/futures", "polygon", Id(byFrame[f][j].token),
                          byFrame[f][j].vertices) EXCEPT !.timestamp = timestamp]]])
    IN  [b EXCEPT !.prims = @ \o prims]

\* converter_v1 NuscenesConverter.convert_message: reading an absent lidar or
\* camera file raises (np.fromfile, Image.open) and ends the conversion
V1ConvertMessage(fs, poses, byFrame, sample_index, env) ==
    LET b0 == [EmptyBuilder EXCEPT !.timestamp = FrameSeconds(fs, sample_index + 1)]
        b1 == V1CoordinateConvert(b0, poses, sample_index)
        b2 == V1AnnotationConvert(b1, byFrame, sample_index)
        b3 == Emit(b2, Prim("/lidar", "point", NoId, <<0, 0, 0>>))
        absent == {k \in DOMAIN CAMERA_SOURCES : CAMERA_SOURCES[k] \notin env.cams}
        readable == IF absent = {} THEN Len(CAMERA_SOURCES)
                    ELSE (CHOOSE k \in absent : \A j \in absent : k <= j) - 1
        b4 == [b3 EXCEPT !.prims = @ \o
                 [k \in 1..readable |->
                     Prim("/camera/" \o Lower(CAMERA_SOURCES[k]), "image", NoId, <<>>)]]
        b5 == V1FutureConvert(b4, fs, byFrame, sample_index)
    IN  IF ~env.lidar THEN [ok |-> FALSE, xb |-> b2]
        ELSE IF absent # {} THEN [ok |-> FALSE, xb |-> b4]
        ELSE [ok |-> TRUE, xb |-> b5]

----------------------------------------------------------------------------
(* converter_v2: load(frames) and convert_message(index, xb, frame) *)

\* PoseConverter.load with _convert_pose: the pose kept per frame
V2PosesByFrame(fs) ==
    [k \in DOMAIN fs |->
        [timestamp |-> DivMicro(Rat(fs[k].timestamp, 1)),
         position |-> fs[k].ego_pose.translation]]

\* PoseConverter._add_trajectory: from the first frame of the scene
V2AddTrajectory(b, poses, message_index) ==
    LET end_idx == Min(Len(poses), message_index + 6)
        trajectory_points == Flatten([k \in 1..end_idx |-> poses[k].position])
    IN  IF Len(trajectory_points) > 0
        THEN Emit(b, Prim("/vehicle/trajectory", "polyline", NoId, trajectory_points))
        ELSE b

\* converter_v2 PoseConverter.convert_message
V2PoseConvert(b, poses, cfg, message_index) ==
    LET pose_data == poses[message_index + 1]
        b1 == Emit(b, PosePrim("/vehicle_pose", pose_data.timestamp, pose_data.position))
    IN  IF cfg.show_vehicle_trajectory THEN V2AddTrajectory(b1, poses, message_index)
        ELSE b1

\* converter_v2 LidarConverter.convert_message
V2LidarConvert(b, env) ==
    IF ~env.lidar THEN b
    ELSE Emit(b, Prim("/lidar/points", "point", NoId, <<0, 0, 0>>))

\* converter_v2 CameraConverter.convert_message
V2CameraConvert(b, env) ==
    LET prims == SelectSeq(
            [k \in DOMAIN CAMERA_SOURCES |->
                Prim("/camera/" \o Lower(CAMERA_SOURCES[k]), "image", NoId, <<>>)],
            LAMBDA q : \E c \in env.cams : q.stream = "/camera/" \o Lower(c))
    IN  [b EXCEPT !.prims = @ \o prims]

\* converter_v2 AnnotationConverter._convert_bbox: the polygon call reads
\* center_vehicle and yaw, whose assignments are commented out, so the call
\* raises NameError before anything is emitted
V2ConvertBbox(b, ann) == [ok |-> FALSE, xb |-> b]

\* converter_v2 AnnotationConverter.convert_message
RECURSIVE V2AnnotationConvert(_, _, _, _)
V2AnnotationConvert(b, tracks, anns, frame) ==
    IF anns = <<>> THEN [ok |-> TRUE, xb |-> b]
    ELSE LET box == V2ConvertBbox(b, Head(anns))
         IN  IF ~box.ok THEN box
             ELSE V2AnnotationConvert(
                      ConvertTrajectory(box.xb, tracks, Head(anns), frame.timestamp,
                                        frame.ego_pose),
                      tracks, Tail(anns), frame)

\* converter_v2 NuscenesConverter.convert_message: the converters in list order
V2ConvertMessage(fs, poses, tracks, ftracks, cfg, message_index, env) ==
    LET frame == fs[message_index + 1]
        b1 == V2PoseConvert(EmptyBuilder, poses, cfg, message_index)
        b2 == V2LidarConvert(b1, env)
        b3 == V2CameraConvert(b2, env)
        a == V2AnnotationConvert(b3, tracks, frame.anns, frame)
    IN  IF ~a.ok THEN a
        ELSE [ok |-> TRUE, xb |-> FutureConvertMessage(a.xb, ftracks, frame)]

----------------------------------------------------------------------------
(* Scenes of the scene-conversion specification *)

RECURSIVE SetToSeq(_)
SetToSeq(S) ==
    IF S = {} THEN <<>>
    ELSE LET m == CHOOSE x \in S : \A y \in S : x <= y
         IN  <<m>> \o SetToSeq(S \ {m})

\* Frame f (0-based) of a scene whose frames are 0.5 s apart from t = 1 s:
\* the instances of present, each moving one metre per frame along x.
SceneFrame(f, present) ==
    LET insts == SetToSeq(present)
    IN  Frame(Micro + f * 500000,
              [k \in DOMAIN insts |->
                  Annotation(AnnToken(f, k), insts[k], <<insts[k] + f, insts[k], 0>>,
                             <<0, 0, 0>>, 0)],
              <<f, 0, 0>>, 0)

\* The instances a frame may hold: none, a mapped one, an unmapped one
\* before a mapped one, an unmapped one between two mapped ones
Presences == {{}, {1}, {2, 3}, {1, 2, 3}}

Scene(present) == [k \in DOMAIN present |-> SceneFrame(k - 1, present[k])]

\* config['sample_limit']: a limit below the scene length or none in effect
\* (v3: the key is absent, None; v1, v2: a limit larger than any scene)
NoLimit == 1000
Configs(v) ==
    [sample_limit : {2, NoLimit},
     show_vehicle_trajectory : IF v = "v2" THEN BOOLEAN ELSE {FALSE}]

\* The environments of one frame conversion
Environments(v) ==
    [lidar : BOOLEAN,
     cams : {Range(CAMERA_SOURCES), Range(CAMERA_SOURCES) \ {"CAM_FRONT_LEFT"}},
     map : IF v = "v3" THEN {Range(MapLayers), {"/map/divider"}, {}} ELSE {{}}]

\* no frame converted yet
NoEnvironment == [lidar |-> TRUE, cams |-> {}, map |-> {}]
NoCall == [op |-> "none", frame |-> 0, ann |-> 0, result |-> <<>>]
NoMetadata == MB_get_data(MB_init)

----------------------------------------------------------------------------
(* The scene conversion: convert_scene (v3), transform (v1),
   batch_convert_scenes (v2) for one scene *)

InitWith(v, fs, cfg) ==
    /\ variant = v
    /\ frames = fs
    /\ config = cfg
    /\ pc = "start"
    /\ index = 0
    /\ metadata = NoMetadata
    /\ xb = EmptyBuilder
    /\ written = <<>>
    /\ object_trajectories = <<>>
    /\ future_trajectories = <<>>
    /\ anns_by_frame = <<>>
    /\ pose_by_frames = <<>>
    /\ call = NoCall
    /\ environment = NoEnvironment

Init ==
    \E v \in {"v1", "v2", "v3"} : \E n \in 1..MaxFrames :
        \E present \in [1..n -> Presences] : \E cfg \in Configs(v) :
            InitWith(v, Scene(present), cfg)

\* v2 AnnotationConverter.load and FutureAnnoConverter.load; v1
\* AnnotationConverter.__init__; v1 CoordinateConverter.__init__ and v2
\* PoseConverter.load
LoadConverters ==
    /\ object_trajectories' =
           IF variant = "v2" THEN BuildObjectTrajectories(frames) ELSE <<>>
    /\ future_trajectories' =
           IF variant = "v2" THEN BuildObjectTrajectories(frames) ELSE <<>>
    /\ anns_by_frame' = IF variant = "v1" THEN V1AnnsByFrame(frames) ELSE <<>>
    /\ pose_by_frames' =
           CASE variant = "v1" -> V1PoseByFrames(frames)
             [] variant = "v2" -> V2PosesByFrame(frames)
             [] OTHER -> <<>>

\* NuScenesConverter.load_nuscenes_data + initialize (v3),
\* NuscenesConverter.initialize (v1, v2); v1 and v3 keep self.metadata
Initialize ==
    /\ pc = "start"
    /\ LoadConverters
    /\ metadata' = IF variant = "v2" THEN metadata
                   ELSE GetMetadata(variant, frames, config)
    /\ pc' = "initialized"
    /\ UNCHANGED <<variant, frames, config, index, xb, written, call, environment>>

\* a scene loop that goes to the frames without writing the metadata
WriteMetadata_skip ==
    /\ pc = "initialized"
    /\ metadata' = IF variant = "v3" THEN metadata
                   ELSE GetMetadata(variant, frames, config)
    /\ pc' = "frames"
    /\ index' = 0
    /\ UNCHANGED <<variant, frames, config, xb, written, object_trajectories,
                   future_trajectories, anns_by_frame, pose_by_frames, call, environment>>

\* writer.write_message(metadata)
WriteMetadata ==
    /\ pc = "initialized"
    /\ metadata' = IF variant = "v3" THEN metadata
                   ELSE GetMetadata(variant, frames, config)
    /\ written' = Append(written, [kind |-> "metadata", index |-> 0])
    /\ pc' = "frames"
    /\ index' = 0
    /\ UNCHANGED <<variant, frames, config, xb, object_trajectories,
                   future_trajectories, anns_by_frame, pose_by_frames, call, environment>>

\* the bound of the frame loop
FrameCount ==
    IF variant = "v3" /\ config.sample_limit = NoLimit THEN Len(frames)
    ELSE Min(config.sample_limit, Len(frames))

\* convert_frame / convert_message of the variant
ConvertOf(i, env) ==
    CASE variant = "v3" -> V3ConvertFrame(frames, i, env)
      [] variant = "v1" -> V1ConvertMessage(frames, pose_by_frames, anns_by_frame, i, env)
      [] variant = "v2" -> V2ConvertMessage(frames, pose_by_frames, object_trajectories,
                                            future_trajectories, config, i, env)

\* one iteration of the frame loop: convert frame i and write its message;
\* an exception raised by a converter ends the run before the write
ConvertFrame ==
    /\ pc = "frames"
    /\ index < FrameCount
    /\ \E env \in Environments(variant) :
        LET r == ConvertOf(index, env)
        IN  /\ xb' = r.xb
            /\ environment' = env
            /\ IF r.ok
               THEN /\ written' = Append(written, [kind |-> "frame", index |-> index])
                    /\ index' = index + 1
                    /\ pc' = pc
               ELSE /\ pc' = "failed"
                    /\ UNCHANGED <<written, index>>
    /\ UNCHANGED <<variant, frames, config, metadata, object_trajectories,
                   future_trajectories, anns_by_frame, pose_by_frames, call>>

\* writer.close()
Close ==
    /\ pc = "frames"
    /\ index >= FrameCount
    /\ written' = Append(written, [kind |-> "close", index |-> 0])
    /\ pc' = "closed"
    /\ UNCHANGED <<variant, frames, config, index, metadata, xb, object_trajectories,
                   future_trajectories, anns_by_frame, pose_by_frames, call, environment>>

Next == Initialize \/ WriteMetadata \/ ConvertFrame \/ Close

Spec == Init /\ [][Next]_vars

----------------------------------------------------------------------------
(* The trajectory methods called on their own: converter_v2
   AnnotationConverter._convert_trajectory and convert_v3
   AnnotationConverter._add_object_trajectories, over frames in any order *)

\* Frame timestamps of the track scenes (microseconds): any order, repeats
TrackTimes == {0, 1000000, 4000000}

\* Annotation k of frame f, at a position no other annotation has
TrackAnnotation(f, k, inst) ==
    Annotation(AnnToken(f, k), inst, <<10 * f + k, inst, 0>>, <<0, 0, 0>>, 0)

\* The annotations of frame f: none, one of instance 1, two of instance 1,
\* one of instance 1 and one of instance 3
TrackAnns(f) ==
    <<<<>>, <<TrackAnnotation(f, 1, 1)>>,
      <<TrackAnnotation(f, 1, 1), TrackAnnotation(f, 2, 1)>>,
      <<TrackAnnotation(f, 1, 1), TrackAnnotation(f, 2, 3)>>>>

TrackFrame(f, ts, anns) == Frame(ts, anns, <<1, 0, 0>>, 1)

\* The scene of the frames with timestamps times[f] and annotations
\* TrackAnns(f)[choice[f]]
TrackScene(times, choice) ==
    [f \in DOMAIN times |-> TrackFrame(f, times[f], TrackAnns(f)[choice[f]])]

\* One instance seen once a second from t = 0 s to t = 4 s
SecondsScene ==
    [f \in 1..5 |-> TrackFrame(f, (f - 1) * Micro, <<TrackAnnotation(f, 1, 1)>>)]

UnitConfig == [sample_limit |-> NoLimit, show_vehicle_trajectory |-> FALSE]

InitTrack ==
    \E v \in {"v2", "v3"} :
        \/ \E n \in 1..MaxTrackFrames :
               \E times \in [1..n -> TrackTimes] :
                   \E choice \in [1..n -> DOMAIN TrackAnns(1)] :
                       InitWith(v, TrackScene(times, choice), UnitConfig)
        \/ InitWith(v, SecondsScene, UnitConfig)

\* converter_v2: AnnotationConverter.load and FutureAnnoConverter.load build
\* the tracks; convert_v3: the frames are loaded, there is no track
LoadTracks ==
    /\ pc = "start"
    /\ pc' = "loaded"
    /\ object_trajectories' =
           IF variant = "v2" THEN BuildObjectTrajectories(frames) ELSE <<>>
    /\ future_trajectories' =
           IF variant = "v2" THEN BuildObjectTrajectories(frames) ELSE <<>>
    /\ UNCHANGED <<variant, frames, config, index, metadata, xb, written,
                   anns_by_frame, pose_by_frames, call, environment>>

\* self._convert_trajectory(ann, current_timestamp, ego_pose, xviz_builder)
\* for annotation k of frame f, on a fresh builder (each behaviour makes one
\* direct call: the tracks are only read, a second call starts from the same
\* converter state)
ConvertTrajectoryCall ==
    /\ pc = "loaded"
    /\ call = NoCall
    /\ variant = "v2"
    /\ \E f \in DOMAIN frames : \E k \in DOMAIN frames[f].anns :
        /\ xb' = ConvertTrajectory(EmptyBuilder, object_trajectories,
                                   frames[f].anns[k], frames[f].timestamp,
                                   frames[f].ego_pose)
        /\ call' = [op |-> "convert_trajectory", frame |-> f, ann |-> k,
                    result |-> <<>>]
    /\ UNCHANGED <<variant, frames, config, pc, index, metadata, written,
                   object_trajectories, future_trajectories, anns_by_frame,
                   pose_by_frames, environment>>

\* self._add_object_trajectories(annotations, xb, frame_index) for frame f,
\* on a fresh builder
V3TrajectoryCall ==
    /\ pc = "loaded"
    /\ call = NoCall
    /\ variant = "v3"
    /\ \E f \in DOMAIN frames :
        /\ xb' = V3AddObjectTrajectories(EmptyBuilder, frames[f].anns, frames, f - 1)
        /\ call' = [op |-> "add_object_trajectories", frame |-> f, ann |-> 0,
                    result |-> <<>>]
    /\ UNCHANGED <<variant, frames, config, pc, index, metadata, written,
                   object_trajectories, future_trajectories, anns_by_frame,
                   pose_by_frames, environment>>

NextTrack == LoadTracks \/ ConvertTrajectoryCall \/ V3TrajectoryCall

SpecTrack == InitTrack /\ [][NextTrack]_vars

----------------------------------------------------------------------------
(* The future-motion predictor called on its own: converter_v2
   FutureAnnoConverter._predict_future_positions and convert_message *)

\* Frames follow each other 5 ms or 0.5 s apart
PredictGaps == {5000, 500000}

PredictAnnotation(f, k, inst, translation, velocity) ==
    Annotation(AnnToken(f, k), inst, translation, velocity, f % 4)

\* The annotations of frame f: none; instance 1 at one of two positions with
\* no declared velocity; instance 1 with a declared velocity beside
\* instance 3, which moves one metre per frame and declares none, in either
\* order
PredictAnns(f) ==
    <<<<>>,
      <<PredictAnnotation(f, 1, 1, <<0, 0, 0>>, <<0, 0, 0>>)>>,
      <<PredictAnnotation(f, 1, 1, <<1, 2, 1>>, <<0, 0, 0>>)>>,
      <<PredictAnnotation(f, 1, 1, <<0, 0, 0>>, <<2, 0, 0>>),
        PredictAnnotation(f, 2, 3, <<f, 2, 1>>, <<0, 0, 0>>)>>,
      <<PredictAnnotation(f, 1, 3, <<f, 2, 1>>, <<0, 0, 0>>),
        PredictAnnotation(f, 2, 1, <<0, 0, 0>>, <<2, 0, 0>>)>>>>

\* The ego pose of a scene: at the origin, or displaced and turned a quarter
EgoPoses == {[translation |-> <<0, 0, 0>>, rotation |-> 0],
             [translation |-> <<1, 0, 0>>, rotation |-> 1]}

\* The timestamp of frame f: the sum of the gaps up to it
RECURSIVE TimeAt(_, _)
TimeAt(gaps, f) == IF f = 0 THEN 0 ELSE TimeAt(gaps, f - 1) + gaps[f]

\* The scene of the frames gaps[f] after each other, with annotations
\* PredictAnns(f)[choice[f]] and one ego pose
PredictScene(gaps, choice, ego) ==
    [f \in DOMAIN gaps |->
        Frame(TimeAt(gaps, f), PredictAnns(f)[choice[f]], ego.translation,
              ego.rotation)]

\* Three frames 1 s apart, one object moving 1 m/s along x from the origin,
\* its velocity declared on the annotations or not
ConstantVelocityScene(declared) ==
    [f \in 1..3 |->
        Frame((f - 1) * Micro,
              <<PredictAnnotation(f, 1, 1, <<f - 1, 0, 0>>,
                                  IF declared THEN <<1, 0, 0>> ELSE <<0, 0, 0>>)>>,
              <<0, 0, 0>>, 0)]

MaxPredictFrames == 3

\* Five frames 0.5 s apart, one object on a curved path that declares a
\* velocity in the last frame only
LongTrackScene ==
    [f \in 1..5 |->
        Frame((f - 1) * 500000,
              <<PredictAnnotation(f, 1, 1, <<f * f, f, 1>>,
                                  IF f = 5 THEN <<1, 2, 3>> ELSE <<0, 0, 0>>)>>,
              <<0, 0, 0>>, 0)]

InitPredict ==
    \/ InitWith("v2", LongTrackScene, UnitConfig)
    \/ \E n \in 1..MaxPredictFrames :
           \E gaps \in [1..n -> PredictGaps] :
               \E choice \in [1..n -> DOMAIN PredictAnns(1)] :
                   \E ego \in EgoPoses :
                       InitWith("v2", PredictScene(gaps, choice, ego), UnitConfig)
    \/ \E declared \in BOOLEAN :
           InitWith("v2", ConstantVelocityScene(declared), UnitConfig)

\* self._predict_future_positions(instance_token, current_timestamp, ann)
\* for annotation k of frame f
PredictCall ==
    /\ pc = "loaded"
    /\ call = NoCall
    /\ variant = "v2"
    /\ \E f \in DOMAIN frames : \E k \in DOMAIN frames[f].anns :
        call' = [op |-> "predict_future_positions", frame |-> f, ann |-> k,
                 result |-> PredictFuturePositions(future_trajectories,
                                frames[f].anns[k].instance_token,
                                frames[f].timestamp)]
    /\ UNCHANGED <<variant, frames, config, pc, index, metadata, xb, written,
                   object_trajectories, future_trajectories, anns_by_frame,
                   pose_by_frames, environment>>

\* FutureAnnoConverter.convert_message(message_index, xviz_builder, frame) for
\* frame f, on a fresh builder
FutureConvertCall ==
    /\ pc = "loaded"
    /\ call = NoCall
    /\ variant = "v2"
    /\ \E f \in DOMAIN frames :
        /\ xb' = FutureConvertMessage(EmptyBuilder, future_trajectories, frames[f])
        /\ call' = [op |-> "future_convert_message", frame |-> f, ann |-> 0,
                    result |-> <<>>]
    /\ UNCHANGED <<variant, frames, config, pc, index, metadata, written,
                   object_trajectories, future_trajectories, anns_by_frame,
                   pose_by_frames, environment>>

\* self._estimate_velocity(trajectory, current_idx) for the track of an
\* instance and any index of it; call.frame is the 1-based index
EstimateVelocityCall ==
    /\ pc = "loaded"
    /\ call = NoCall
    /\ variant = "v2"
    /\ \E inst \in DOMAIN future_trajectories :
        \E cur \in DOMAIN future_trajectories[inst] :
            call' = [op |-> "estimate_velocity", frame |-> cur, ann |-> inst,
                     result |-> EstimateVelocity(future_trajectories[inst], cur)]
    /\ UNCHANGED <<variant, frames, config, pc, index, metadata, xb, written,
                   object_trajectories, future_trajectories, anns_by_frame,
                   pose_by_frames, environment>>

NextPredict == LoadTracks \/ PredictCall \/ FutureConvertCall \/ EstimateVelocityCall

SpecPredict == InitPredict /\ [][NextPredict]_vars

----------------------------------------------------------------------------
(* The batch over the scenes of the configuration: convert_v3
   batch_convert_scenes, converter_v2 batch_convert_scenes, converter_v1
   transform.  The per-frame variables of one scene are local to the loop
   body, so one action is one iteration of the scene loop. *)

MaxScenes == 3
MaxBatchFrames == 2

\* nusc.scene: the names of the scenes of the record store
StoreScenes == {"scene-0061", "scene-0103"}

\* the scene names a configuration may list: those of the store and one
\* that matches no scene
SceneNames == StoreScenes \cup {"scene-9999"}

\* a lookup that finds every name
SceneFound_any(scene_name) == scene_name \in SceneNames

\* [s for s in nusc.scene if s['name'] == scene_name] is not empty
SceneFound(scene_name) == scene_name \in StoreScenes

\* the exception raised for a name that matches no scene: ValueError from
\* get_map_name (v3) and _load_scene (v2), IndexError from the [0] of load (v1)
SceneNotFoundError(v) == IF v = "v1" THEN "IndexError" ELSE "ValueError"

\* the bound of the frame loop of one scene
FrameCountOf(v, fs, cfg) ==
    IF v = "v3" /\ cfg.sample_limit = NoLimit THEN Len(fs)
    ELSE Min(cfg.sample_limit, Len(fs))

\* convert_frame / convert_message on the converters initialised for fs
ConvertOfScene(v, fs, cfg, i, env) ==
    CASE v = "v3" -> V3ConvertFrame(fs, i, env)
      [] v = "v1" -> V1ConvertMessage(fs, V1PoseByFrames(fs), V1AnnsByFrame(fs), i, env)
      [] v = "v2" -> V2ConvertMessage(fs, V2PosesByFrame(fs), BuildObjectTrajectories(fs),
                                      BuildObjectTrajectories(fs), cfg, i, env)

\* the frame loop: the number of frames converted before the first one whose
\* conversion raises (n when none does)
RECURSIVE ConvertedPrefix(_, _, _, _, _, _)
ConvertedPrefix(v, fs, cfg, env, i, n) ==
    IF i >= n THEN n
    ELSE IF ConvertOfScene(v, fs, cfg, i, env).ok
         THEN ConvertedPrefix(v, fs, cfg, env, i + 1, n)
         ELSE i

\* what the writer of one scene is given: the metadata, the frames converted
\* before an exception, and the close when no exception was raised
SceneMessages(v, fs, cfg, env, run) ==
    LET n == FrameCountOf(v, fs, cfg)
        done == ConvertedPrefix(v, fs, cfg, env, 0, n)
        msgs == <<[kind |-> "metadata", index |-> 0, run |-> run]>> \o
                [i \in 1..done |-> [kind |-> "frame", index |-> i - 1, run |-> run]]
    IN  IF done = n
        THEN [ok |-> TRUE, written |-> Append(msgs, [kind |-> "close", index |-> 0, run |-> run])]
        ELSE [ok |-> FALSE, written |-> msgs]

\* config['scenes'] as a list of distinct scene names
Batches ==
    {b \in UNION {[1..n -> SceneNames] : n \in 1..MaxScenes} :
        \A i, j \in DOMAIN b : i # j => b[i] # b[j]}

BatchConfig(scenes) ==
    [sample_limit |-> NoLimit, show_vehicle_trajectory |-> FALSE, scenes |-> scenes]

InitBatch ==
    \E v \in {"v1", "v2", "v3"} : \E n \in 1..MaxBatchFrames :
        \E present \in [1..n -> Presences] : \E scenes \in Batches :
            InitWith(v, Scene(present), BatchConfig(scenes))

\* one iteration of the scene loop, for scene_names[index]: an exception
\* raised anywhere in the body leaves the loop and the function
ConvertScene ==
    /\ pc = "start"
    /\ index < Len(config.scenes)
    /\ LET run == index + 1
           scene_name == config.scenes[run]
       IN  IF ~SceneFound(scene_name)
           THEN /\ pc' = "failed"
                /\ call' = [op |-> "raise", frame |-> run, ann |-> 0,
                            result |-> SceneNotFoundError(variant)]
                /\ UNCHANGED <<written, index, environment>>
           ELSE \E env \in Environments(variant) :
                LET r == SceneMessages(variant, frames, config, env, run)
                IN  /\ written' = written \o r.written
                    /\ environment' = env
                    /\ IF r.ok
                       THEN /\ index' = index + 1
                            /\ UNCHANGED <<pc, call>>
                       ELSE /\ pc' = "failed"
                            /\ call' = [op |-> "raise", frame |-> run, ann |-> 0,
                                        result |-> "Exception"]
                            /\ UNCHANGED index
    /\ UNCHANGED <<variant, frames, config, metadata, xb, object_trajectories,
                   future_trajectories, anns_by_frame, pose_by_frames>>

\* the scene loop has run over every name: batch_convert_scenes returns
BatchReturn ==
    /\ pc = "start"
    /\ index = Len(config.scenes)
    /\ pc' = "closed"
    /\ UNCHANGED <<variant, frames, config, index, metadata, xb, written,
                   object_trajectories, future_trajectories, anns_by_frame,
                   pose_by_frames, call, environment>>

NextBatch == ConvertScene \/ BatchReturn

SpecBatch == InitBatch /\ [][NextBatch]_vars

----------------------------------------------------------------------------
(* The frame transforms called on their own: converter_v2 utils.py
   global_to_vehicle_frame and vehicle_to_global_frame, with pyquaternion
   quaternions in exact rational arithmetic.  A quaternion is
   [n |-> <<w, x, y, z>>, d |-> k], standing for (w, x, y, z) / k. *)

MaxCalls == 3

\* Hamilton product of two integer quaternions (Quaternion.__mul__)
QMul(a, b) ==
    <<a[1] * b[1] - a[2] * b[2] - a[3] * b[3] - a[4] * b[4],
      a[1] * b[2] + a[2] * b[1] + a[3] * b[4] - a[4] * b[3],
      a[1] * b[3] - a[2] * b[4] + a[3] * b[1] + a[4] * b[2],
      a[1] * b[4] + a[2] * b[3] - a[3] * b[2] + a[4] * b[1]>>

\* Quaternion.conjugate
QConjugate(a) == <<a[1], -a[2], -a[3], -a[4]>>

\* the sum of the squares of the components
QSumSq(a) == a[1] * a[1] + a[2] * a[2] + a[3] * a[3] + a[4] * a[4]

\* a rational quaternion in lowest terms
Quaternion(n, d) ==
    LET g == Gcd(Gcd(n[1], n[2]), Gcd(Gcd(n[3], n[4]), d))
    IN  [n |-> <<n[1] \div g, n[2] \div g, n[3] \div g, n[4] \div g>>, d |-> d \div g]

\* an inverse that returns the rotation itself
QInverse_same(q) == q

\* Quaternion.inverse: the conjugate divided by the squared norm
QInverse(q) ==
    LET c == QConjugate(q.n)
    IN  Quaternion(<<c[1] * q.d, c[2] * q.d, c[3] * q.d, c[4] * q.d>>, QSumSq(q.n))

\* Quaternion.rotate(vector) of a unit quaternion: the vector part of
\* q * (0, vector) * q.conjugate
QRotate(q, p) ==
    LET r == QMul(QMul(q.n, <<0, p.n[1], p.n[2], p.n[3]>>), QConjugate(q.n))
    IN  RV(<<r[2], r[3], r[4]>>, q.d * q.d * p.d)

\* point - ego_translation, point + ego_translation (numpy arrays)
RVSub(p, t) == RV(<<p.n[1] - t[1] * p.d, p.n[2] - t[2] * p.d, p.n[3] - t[3] * p.d>>, p.d)
RVAdd(p, t) == RV(<<p.n[1] + t[1] * p.d, p.n[2] + t[2] * p.d, p.n[3] + t[3] * p.d>>, p.d)

\* utils.global_to_vehicle_frame
global_to_vehicle_frame(point, ego_translation, ego_rotation) ==
    LET point_centered == RVSub(point, ego_translation)
    IN  QRotate(QInverse(ego_rotation), point_centered)

\* utils.vehicle_to_global_frame
vehicle_to_global_frame(point, ego_translation, ego_rotation) ==
    LET point_rotated == QRotate(ego_rotation, point)
    IN  RVAdd(point_rotated, ego_translation)

\* unit quaternions with rational components: the identity, half and third
\* turns, and rotations by angles that are no multiple of a quarter turn
UnitQuaternions ==
    {Quaternion(<<1, 0, 0, 0>>, 1), Quaternion(<<0, 0, 0, 1>>, 1),
     Quaternion(<<3, 0, 0, 4>>, 5), Quaternion(<<1, 2, 2, 0>>, 3),
     Quaternion(<<1, 1, 1, 1>>, 2), Quaternion(<<2, 3, 6, 0>>, 7)}

Coordinate == {-1, 0, 2}
TransformPoints == {RV(<<x, y, z>>, 1) : x \in Coordinate, y \in Coordinate, z \in Coordinate}
Translations == {<<0, 0, 0>>, <<1, -2, 0>>, <<3, 1, 1>>}

\* a point and an ego pose; call.result is the list of the points computed
\* so far, starting with the given point
InitTransform ==
    \E p \in TransformPoints : \E t \in Translations : \E q \in UnitQuaternions :
        /\ variant = "v2"
        /\ frames = <<>>
        /\ config = UnitConfig
        /\ pc = "loaded"
        /\ index = 0
        /\ metadata = NoMetadata
        /\ xb = EmptyBuilder
        /\ written = <<>>
        /\ object_trajectories = <<>>
        /\ future_trajectories = <<>>
        /\ anns_by_frame = <<>>
        /\ pose_by_frames = <<[translation |-> t, rotation |-> q]>>
        /\ call = [op |-> "none", frame |-> 0, ann |-> 0, result |-> <<p>>]
        /\ environment = NoEnvironment

\* the transform named op applied to the last point computed, with the ego
\* pose of the state; a transform is never applied twice in a row
TransformCall(op, point_out) ==
    /\ Len(call.result) < MaxCalls
    /\ call.op # op
    /\ call' = [call EXCEPT !.op = op, !.result = Append(@, point_out)]
    /\ UNCHANGED <<variant, frames, config, pc, index, metadata, xb, written,
                   object_trajectories, future_trajectories, anns_by_frame,
                   pose_by_frames, environment>>

GlobalToVehicleFrameCall ==
    TransformCall("global_to_vehicle_frame",
                  global_to_vehicle_frame(call.result[Len(call.result)],
                                          pose_by_frames[1].translation,
                                          pose_by_frames[1].rotation))

VehicleToGlobalFrameCall ==
    TransformCall("vehicle_to_global_frame",
                  vehicle_to_global_frame(call.result[Len(call.result)],
                                          pose_by_frames[1].translation,
                                          pose_by_frames[1].rotation))

NextTransform == GlobalToVehicleFrameCall \/ VehicleToGlobalFrameCall

SpecTransform == InitTransform /\ [][NextTransform]_vars

----------------------------------------------------------------------------
(* convert_v3 map_utils._union_ped called on its own.  A pedestrian-crossing
   polygon is a rectangle given by its four corners (integer coordinates),
   which is its own minimum rotated rectangle; the corner the library lists
   first is not fixed, so the corner lists come in both starting corners.
   A shapely geometry built by union is kept as the set of the input
   polygons (their list positions) it is the union of. *)

MaxPolygons == 3

Sub2(p, q) == <<p[1] - q[1], p[2] - q[2]>>
Dot2(u, v) == u[1] * v[1] + u[2] * v[2]
Cross2(u, v) == u[1] * v[2] - u[2] * v[1]

\* the edges of a polygon as pairs of corners
Edges(c) == {<<c[k], c[(k % Len(c)) + 1]>> : k \in DOMAIN c}

\* get_rec_direction: the longest of the first two edges of the minimum
\* rotated rectangle (argmax: the first on a tie); the length is its norm
get_rec_direction(geom) ==
    LET e1 == Sub2(geom[2], geom[1])
        e2 == Sub2(geom[3], geom[2])
    IN  IF Dot2(e1, e1) >= Dot2(e2, e2) THEN e1 ELSE e2

\* 1 - np.abs(cos) < 0.01 with cos = u.dot(v) / (|u| * |v|), that is
\* |cos| > 0.99, squared:  10000 * (u.v)^2 > 9801 * |u|^2 * |v|^2
DirectionsAligned(u, v) ==
    10000 * Dot2(u, v) * Dot2(u, v) > 9801 * Dot2(u, u) * Dot2(v, v)

\* the least and the greatest coordinate d of the corners of a polygon
MinCoord(a, d) == CHOOSE lo \in {p[d] : p \in Range(a)} : \A p \in Range(a) : lo <= p[d]
MaxCoord(a, d) == CHOOSE hi \in {p[d] : p \in Range(a)} : \A p \in Range(a) : hi >= p[d]

\* the envelopes (bounding boxes) of two polygons intersect
EnvelopesIntersect(a, b) ==
    \A d \in 1..2 : MinCoord(a, d) <= MaxCoord(b, d) /\ MinCoord(b, d) <= MaxCoord(a, d)

\* a query that returns every polygon of the list
TreeQuery_all(ped_geoms, i) == DOMAIN ped_geoms

\* STRtree.query(pgeom): the positions of the polygons whose envelope
\* intersects that of pgeom
TreeQuery(ped_geoms, i) ==
    {j \in DOMAIN ped_geoms : EnvelopesIntersect(ped_geoms[i], ped_geoms[j])}

\* the loop of _union_ped over the input list: remain_idx and final_pgeom
RECURSIVE UnionLoop(_, _, _, _)
UnionLoop(ped_geoms, i, remain_idx, final_pgeom) ==
    IF i > Len(ped_geoms) THEN final_pgeom
    ELSE IF i \notin remain_idx THEN UnionLoop(ped_geoms, i + 1, remain_idx, final_pgeom)
    ELSE LET pgeom_v == get_rec_direction(ped_geoms[i])
             merged == {o_idx \in TreeQuery(ped_geoms, i) :
                           /\ o_idx \in remain_idx
                           /\ o_idx # i
                           /\ DirectionsAligned(pgeom_v,
                                                get_rec_direction(ped_geoms[o_idx]))}
         IN  UnionLoop(ped_geoms, i + 1, remain_idx \ ({i} \cup merged),
                       Append(final_pgeom, {i} \cup merged))

\* the line through the edge e separates the convex polygons a and b
Separates(e, a, b) ==
    LET side(r) == Cross2(Sub2(e[2], e[1]), Sub2(r, e[1]))
    IN  \/ (\A r \in Range(a) : side(r) <= 0) /\ (\A r \in Range(b) : side(r) >= 0)
        \/ (\A r \in Range(a) : side(r) >= 0) /\ (\A r \in Range(b) : side(r) <= 0)

\* the interiors of two convex polygons meet: no edge line separates them
InteriorsMeet(a, b) == ~\E e \in Edges(a) \cup Edges(b) : Separates(e, a, b)

\* two edges lie on one line and overlap in a segment of positive length
EdgesOverlap(e, f) ==
    LET d == Sub2(e[2], e[1])
        s1 == Dot2(d, Sub2(f[1], e[1]))
        s2 == Dot2(d, Sub2(f[2], e[1]))
        lo == IF s1 <= s2 THEN s1 ELSE s2
        hi == IF s1 <= s2 THEN s2 ELSE s1
    IN  /\ Cross2(d, Sub2(f[1], e[1])) = 0
        /\ Cross2(d, Sub2(f[2], e[1])) = 0
        /\ (IF lo >= 0 THEN lo ELSE 0) < (IF hi <= Dot2(d, d) THEN hi ELSE Dot2(d, d))

\* the union of two polygons is one Polygon: they overlap or share a piece
\* of boundary (polygons that are apart or touch in a point give a
\* MultiPolygon)
Joined(a, b) ==
    \/ InteriorsMeet(a, b)
    \/ \E e \in Edges(a) : \E f \in Edges(b) : EdgesOverlap(e, f)

\* the polygons of S connected to those of C through joined polygons
RECURSIVE Connected(_, _, _)
Connected(ped_geoms, S, C) ==
    LET next == C \cup {j \in S : \E i \in C : Joined(ped_geoms[i], ped_geoms[j])}
    IN  IF next = C THEN C ELSE Connected(ped_geoms, S, next)

\* split_collections of a union: the Polygon itself, or the parts of the
\* MultiPolygon
RECURSIVE split_collections(_, _)
split_collections(ped_geoms, S) ==
    IF S = {} THEN <<>>
    ELSE LET m == CHOOSE x \in S : \A y \in S : x <= y
             part == Connected(ped_geoms, S, {m})
         IN  <<part>> \o split_collections(ped_geoms, S \ part)

\* _union_ped
union_ped(ped_geoms) ==
    IF ped_geoms = <<>> THEN <<>>
    ELSE LET final_pgeom == UnionLoop(ped_geoms, 1, DOMAIN ped_geoms, <<>>)
         IN  Flatten([k \in DOMAIN final_pgeom |->
                         split_collections(ped_geoms, final_pgeom[k])])

\* Crossings: two 4 x 1 rectangles sharing a long edge, a third one stacked
\* on them, a parallel one far away, one at 45 degrees, and two whose long
\* axis is just outside (14, 2) and just inside (20, 2) the 0.01 threshold
\* against the x axis
Crossings ==
    <<<< <<0, 0>>, <<4, 0>>, <<4, 1>>, <<0, 1>> >>,
      << <<0, 1>>, <<4, 1>>, <<4, 2>>, <<0, 2>> >>,
      << <<0, 2>>, <<4, 2>>, <<4, 3>>, <<0, 3>> >>,
      << <<10, 0>>, <<14, 0>>, <<14, 1>>, <<10, 1>> >>,
      << <<1, 2>>, <<4, 5>>, <<3, 6>>, <<0, 3>> >>,
      << <<0, 2>>, <<14, 4>>, <<13, 11>>, <<-1, 9>> >>,
      << <<0, 2>>, <<20, 4>>, <<19, 14>>, <<-1, 12>> >> >>

\* the corner list of a rectangle starting at corner 1 + k
FromCorner(c, k) == [j \in DOMAIN c |-> c[((j + k - 1) % Len(c)) + 1]]

\* input lists of distinct crossings, each listed from either of two corners
PedInputs ==
    {[k \in DOMAIN pick |-> FromCorner(Crossings[pick[k]], start[k])] :
        pick \in {p \in UNION {[1..n -> DOMAIN Crossings] : n \in 1..MaxPolygons} :
                     \A i, j \in DOMAIN p : i # j => p[i] # p[j]},
        start \in [1..MaxPolygons -> {0, 1}]}

\* call.ann holds the argument ped_geoms
InitPed ==
    \E ped_geoms \in PedInputs :
        /\ variant = "v3"
        /\ frames = <<>>
        /\ config = UnitConfig
        /\ pc = "loaded"
        /\ index = 0
        /\ metadata = NoMetadata
        /\ xb = EmptyBuilder
        /\ written = <<>>
        /\ object_trajectories = <<>>
        /\ future_trajectories = <<>>
        /\ anns_by_frame = <<>>
        /\ pose_by_frames = <<>>
        /\ call = [op |-> "none", frame |-> 0, ann |-> ped_geoms, result |-> <<>>]
        /\ environment = NoEnvironment

\* ped_crossings = _union_ped(ped_crossings)
UnionPedCall ==
    /\ call.op = "none"
    /\ call' = [call EXCEPT !.op = "_union_ped", !.result = union_ped(call.ann)]
    /\ UNCHANGED <<variant, frames, config, pc, index, metadata, xb, written,
                   object_trajectories, future_trajectories, anns_by_frame,
                   pose_by_frames, environment>>

NextPed == UnionPedCall

SpecPed == InitPed /\ [][NextPed]_vars

----------------------------------------------------------------------------
(* The pose converters called on their own, over scenes longer than the
   lookahead: convert_v3 PoseConverter.convert, converter_v1
   CoordinateConverter.convert, converter_v2 PoseConverter.convert_message *)

MaxEgoFrames == 8

\* The ego position at frame f (0-based) along a straight or a curved route
EgoRoutes == {"straight", "curved"}
EgoAt(route, f) == IF route = "straight" THEN <<f, 0, 0>> ELSE <<f, f * f, 1>>

EgoScene(n, route) ==
    [k \in 1..n |-> Frame(Micro + (k - 1) * 500000, <<>>, EgoAt(route, k - 1), 0)]

\* the converters after load()/__init__
InitEgo ==
    \E v \in {"v1", "v2", "v3"} : \E n \in 1..MaxEgoFrames : \E route \in EgoRoutes :
        \E show \in (IF v = "v2" THEN BOOLEAN ELSE {FALSE}) :
            /\ variant = v
            /\ frames = EgoScene(n, route)
            /\ config = [sample_limit |-> NoLimit, show_vehicle_trajectory |-> show]
            /\ pc = "loaded"
            /\ index = 0
            /\ metadata = NoMetadata
            /\ xb = EmptyBuilder
            /\ written = <<>>
            /\ object_trajectories = <<>>
            /\ future_trajectories = <<>>
            /\ anns_by_frame = <<>>
            /\ pose_by_frames = CASE v = "v1" -> V1PoseByFrames(frames)
                                  [] v = "v2" -> V2PosesByFrame(frames)
                                  [] v = "v3" -> <<>>
            /\ call = NoCall
            /\ environment = NoEnvironment

\* convert(frame_index, xb) / convert_message(message_index, xviz_builder) of
\* the pose converter for frame f, on a fresh builder
PoseConvertCall ==
    /\ pc = "loaded"
    /\ call = NoCall
    /\ \E f \in DOMAIN frames :
        /\ xb' = CASE variant = "v1" ->
                        V1CoordinateConvert(EmptyBuilder, pose_by_frames, f - 1)
                   [] variant = "v2" ->
                        V2PoseConvert(EmptyBuilder, pose_by_frames, config, f - 1)
                   [] variant = "v3" -> V3PoseConvert(EmptyBuilder, frames, f - 1)
        /\ call' = [op |-> "pose_convert", frame |-> f, ann |-> 0, result |-> <<>>]
    /\ UNCHANGED <<variant, frames, config, pc, index, metadata, written,
                   object_trajectories, future_trajectories, anns_by_frame,
                   pose_by_frames, environment>>

NextEgo == PoseConvertCall

SpecEgo == InitEgo /\ [][NextEgo]_vars

----------------------------------------------------------------------------
(* The scene converter as an object: initialize() and
   convert_message(message_index) / convert_frame(frame_index) called in any
   order, any number of times *)

\* the number of frames the converter holds: self.sample_count (v2), 0 from
\* __init__; len(self.frames) (v3), [] from __init__
SampleCount(loaded, fs) == IF loaded THEN Len(fs) ELSE 0

\* sample_limit belongs to the scene loop, not to the converter object
ObjectConfigs(v) == {cfg \in Configs(v) : cfg.sample_limit = NoLimit}

\* the lidar sweep of a frame is on disk or not; cameras and map are
ObjectEnvironments(v) ==
    {env \in Environments(v) :
        /\ env.cams = Range(CAMERA_SOURCES)
        /\ v = "v3" => env.map = Range(MapLayers)}

InitObject ==
    \E v \in {"v1", "v2", "v3"} : \E n \in 1..MaxFrames :
        \E present \in [1..n -> Presences] : \E cfg \in ObjectConfigs(v) :
            InitWith(v, Scene(present), cfg)

\* NuscenesConverter.initialize (v1, v2), load_nuscenes_data + initialize
\* (v3): the frames are loaded and every converter is built or loaded
InitializeObject ==
    /\ pc = "start"
    /\ LoadConverters
    /\ metadata' = IF variant = "v2" THEN metadata
                   ELSE GetMetadata(variant, frames, config)
    /\ pc' = "loaded"
    /\ UNCHANGED <<variant, frames, config, index, xb, written, call, environment>>

\* what a call returns without converting: None when the index is not below
\* the frame count (v2, v3); converter_v1 has no such test and reads
\* self.metadata and self.timestamps[sample_index]
NoMessage(v, loaded) ==
    IF v = "v1" THEN (IF loaded THEN "IndexError" ELSE "AttributeError") ELSE "None"

\* the call and the builder of convert_message(message_index): the converters
\* run in list order on a new builder; the call keeps the frame count it saw
\* and what it returned
ConvertMessageStep ==
    \E message_index \in 0..Len(frames) : \E env \in ObjectEnvironments(variant) :
        LET sample_count == SampleCount(pc = "loaded", frames)
        IN  IF message_index >= sample_count
            THEN /\ call' = [op |-> "convert_message", frame |-> message_index,
                             ann |-> 0,
                             result |-> [sample_count |-> sample_count,
                                         message |-> NoMessage(variant,
                                                               pc = "loaded")]]
                 /\ UNCHANGED <<xb, environment>>
            ELSE LET r == ConvertOf(message_index, env)
                 IN  /\ xb' = r.xb
                     /\ environment' = env
                     /\ call' = [op |-> "convert_message", frame |-> message_index,
                                 ann |-> 0,
                                 result |-> [sample_count |-> sample_count,
                                             message |-> IF r.ok THEN "message"
                                                         ELSE "error"]]

\* a conversion that consumes the oldest sample of every track
ConvertMessageCall_consuming ==
    /\ pc \in {"start", "loaded"}
    /\ ConvertMessageStep
    /\ future_trajectories' =
           [t \in DOMAIN future_trajectories |-> Tail(future_trajectories[t])]
    /\ UNCHANGED <<variant, frames, config, pc, index, metadata, written,
                   object_trajectories, anns_by_frame, pose_by_frames>>

\* NuscenesConverter.convert_message / NuScenesConverter.convert_frame
ConvertMessageCall ==
    /\ pc \in {"start", "loaded"}
    /\ ConvertMessageStep
    /\ UNCHANGED <<variant, frames, config, pc, index, metadata, written,
                   object_trajectories, future_trajectories, anns_by_frame,
                   pose_by_frames>>

NextObject == InitializeObject \/ ConvertMessageCall

SpecObject == InitObject /\ [][NextObject]_vars

----------------------------------------------------------------------------
(* convert_v3 map_utils.split_collections on geometries of every accepted
   type *)

MaxParts == 2

\* A shapely geometry: its type, its parts (geom.geoms, none for a
\* single-part geometry), is_valid and is_empty
Geometry(type, geoms, valid, empty) ==
    [geom_type |-> type, geoms |-> geoms, is_valid |-> valid, is_empty |-> empty]

\* single-part geometries: valid, invalid (self-crossing), or empty
SingleParts(types) ==
    {Geometry(t, <<>>, state[1], state[2]) :
        t \in types, state \in {<<TRUE, FALSE>>, <<FALSE, FALSE>>, <<TRUE, TRUE>>}}

PartLists(types) == UNION {[1..n -> SingleParts(types)] : n \in 0..MaxParts}

\* a multi-part geometry is valid when its parts are and empty when all are
Collection(type, geoms) ==
    Geometry(type, geoms, \A k \in DOMAIN geoms : geoms[k].is_valid,
             \A k \in DOMAIN geoms : geoms[k].is_empty)

\* the geometries split_collections accepts (its assert)
AcceptedGeometries ==
    SingleParts({"LineString", "Polygon"})
        \cup {Collection("MultiLineString", g) : g \in PartLists({"LineString"})}
        \cup {Collection("MultiPolygon", g) : g \in PartLists({"Polygon"})}
        \cup {Collection("GeometryCollection", g) :
                 g \in PartLists({"LineString", "Polygon", "Point"})}

\* 'Multi' in geom.geom_type
IsMulti(type) == type \in {"MultiLineString", "MultiPolygon"}

\* split_collections(geom)
SplitCollections(geom) ==
    IF IsMulti(geom.geom_type)
    THEN SelectSeq(geom.geoms, LAMBDA g : g.is_valid /\ ~g.is_empty)
    ELSE IF geom.is_valid /\ ~geom.is_empty THEN <<geom>> ELSE <<>>

\* call.ann holds the argument geom
InitSplit ==
    \E geom \in AcceptedGeometries :
        /\ variant = "v3"
        /\ frames = <<>>
        /\ config = UnitConfig
        /\ pc = "loaded"
        /\ index = 0
        /\ metadata = NoMetadata
        /\ xb = EmptyBuilder
        /\ written = <<>>
        /\ object_trajectories = <<>>
        /\ future_trajectories = <<>>
        /\ anns_by_frame = <<>>
        /\ pose_by_frames = <<>>
        /\ call = [op |-> "none", frame |-> 0, ann |-> geom, result |-> <<>>]
        /\ environment = NoEnvironment

SplitCollectionsCall ==
    /\ call.op = "none"
    /\ call' = [call EXCEPT !.op = "split_collections",
                            !.result = SplitCollections(call.ann)]
    /\ UNCHANGED <<variant, frames, config, pc, index, metadata, xb, written,
                   object_trajectories, future_trajectories, anns_by_frame,
                   pose_by_frames, environment>>

NextSplit == SplitCollectionsCall

SpecSplit == InitSplit /\ [][NextSplit]_vars

----------------------------------------------------------------------------
(* convert_v3 map_utils.get_ped_crossing_contour on the outcomes of
   ext.intersection(local_patch) *)

MaxPieces == 2
MaxTouches == 2

\* The exterior ring of a crossing: 6 vertices and the closing repeat of the
\* first one
RingLen == 6
RingCoord(k) ==
    LET j == ((k - 1) % RingLen) + 1
    IN  <<(j * j) % 7, j>>

\* a run of the ring inside the region, from vertex a to vertex b
Piece(a, b) == [k \in 1..(b - a + 1) |-> RingCoord(a + k - 1)]

\* the runs of the ring inside the region: apart from each other except
\* where the ring closes
Pieces == {Piece(a, b) : a \in 1..RingLen, b \in 2..(RingLen + 1)} \ {<<>>}

PieceLists == UNION {[1..n -> Pieces] : n \in 0..MaxPieces}

WellFormed(lines) ==
    /\ \A k \in DOMAIN lines : Len(lines[k]) >= 2
    /\ \A k \in DOMAIN lines : \A j \in DOMAIN lines :
           k < j => \A m \in 2..Len(lines[j]) : lines[j][m] \notin Range(lines[k])

\* what the intersection of the ring with the region consists of: line
\* pieces, isolated touching points, and the type the library gives an empty
\* result (LINESTRING EMPTY or GEOMETRYCOLLECTION EMPTY, by GEOS version)
Intersections ==
    {[lines |-> l, points |-> n, empty_type |-> t] :
        l \in {x \in PieceLists : WellFormed(x)}, n \in 0..MaxTouches,
        t \in {"LineString", "GeometryCollection"}}

\* geom_type of the intersection
IntersectionType(inter) ==
    CASE Len(inter.lines) = 0 /\ inter.points = 0 -> inter.empty_type
      [] Len(inter.lines) = 0 /\ inter.points = 1 -> "Point"
      [] Len(inter.lines) = 0 /\ inter.points > 1 -> "MultiPoint"
      [] Len(inter.lines) = 1 /\ inter.points = 0 -> "LineString"
      [] Len(inter.lines) > 1 /\ inter.points = 0 -> "MultiLineString"
      [] OTHER -> "GeometryCollection"

\* ops.linemerge(lines): lines that meet end to start are joined
RECURSIVE LineMerge(_)
LineMerge(lines) ==
    LET joins == {p \in (DOMAIN lines) \X (DOMAIN lines) :
                     /\ p[1] # p[2]
                     /\ lines[p[1]][Len(lines[p[1]])] = lines[p[2]][1]}
    IN  IF joins = {} THEN lines
        ELSE LET p == CHOOSE q \in joins : TRUE
                 joined == lines[p[1]] \o Tail(lines[p[2]])
                 rest == SelectSeq([k \in DOMAIN lines |->
                                       IF k \in {p[1], p[2]} THEN <<>> ELSE lines[k]],
                                   LAMBDA x : x # <<>>)
             IN  LineMerge(<<joined>> \o rest)

\* get_ped_crossing_contour from the intersection on: the returned line
\* (<<>> for None) or the exception raised
ContourOf(inter) ==
    LET type == IntersectionType(inter)
        merged == LineMerge(inter.lines)
    IN  IF type = "LineString"
        THEN [raised |-> "none",
              line |-> IF inter.lines = <<>> THEN <<>> ELSE inter.lines[1]]
        ELSE IF type = "Point"
        THEN [raised |-> "AttributeError", line |-> <<>>]
        ELSE IF Len(merged) = 1
        THEN [raised |-> "none", line |-> merged[1]]
        ELSE IF merged = <<>>
        THEN [raised |-> "ValueError", line |-> <<>>]
        ELSE [raised |-> "none", line |-> Flatten(merged)]

\* call.ann holds the intersection of the crossing's exterior with the region
InitContour ==
    \E inter \in Intersections :
        /\ variant = "v3"
        /\ frames = <<>>
        /\ config = UnitConfig
        /\ pc = "loaded"
        /\ index = 0
        /\ metadata = NoMetadata
        /\ xb = EmptyBuilder
        /\ written = <<>>
        /\ object_trajectories = <<>>
        /\ future_trajectories = <<>>
        /\ anns_by_frame = <<>>
        /\ pose_by_frames = <<>>
        /\ call = [op |-> "none", frame |-> 0, ann |-> inter, result |-> <<>>]
        /\ environment = NoEnvironment

\* line = get_ped_crossing_contour(p, local_patch)
ContourCall ==
    /\ call.op = "none"
    /\ call' = [call EXCEPT !.op = "get_ped_crossing_contour",
                            !.result = ContourOf(call.ann)]
    /\ UNCHANGED <<variant, frames, config, pc, index, metadata, xb, written,
                   object_trajectories, future_trajectories, anns_by_frame,
                   pose_by_frames, environment>>

NextContour == ContourCall

SpecContour == InitContour /\ [][NextContour]_vars

----------------------------------------------------------------------------
(* XVIZMetadataBuilder driven by arbitrary call sequences *)

MaxBuilderCalls == 4

BuilderStreams == {"/a", "/b"}

\* the fluent calls a caller can make between two get_data()
BuilderCallSet ==
    {Strm(id) : id \in BuilderStreams}
        \cup {Cat("primitive"), Cat("pose"), Typ("polygon"), Coord("IDENTITY"),
              Style("stroke"), Call("pose", "origin")}

GetData == Call("get_data", None)

\* _flush assigns self._temp_type to an enum field of the stream; when no
\* type() was called since the last reset it assigns None
FlushAssignsNone(b) ==
    /\ b.stream_id # None
    /\ b.temp_stream.category \in {1, 2, 3, 5}
    /\ b.temp_type = None

\* Does call c on builder b run _flush?
Flushes(b, c) ==
    \/ c.op = "get_data"
    \/ c.op = "stream" /\ b.stream_id # None

\* whether assigning None to a protobuf enum field raises depends on the
\* protobuf implementation in use
FlushOutcomes(b, c) ==
    IF Flushes(b, c) /\ FlushAssignsNone(b) THEN {"none", "TypeError"} ELSE {"none"}

\* call.ann is the sequence of calls made so far, call.result the builder,
\* call.data the message of the last get_data()
InitBuilder ==
    /\ variant = "v3"
    /\ frames = <<>>
    /\ config = UnitConfig
    /\ pc = "loaded"
    /\ index = 0
    /\ metadata = NoMetadata
    /\ xb = EmptyBuilder
    /\ written = <<>>
    /\ object_trajectories = <<>>
    /\ future_trajectories = <<>>
    /\ anns_by_frame = <<>>
    /\ pose_by_frames = <<>>
    /\ call = [op |-> "XVIZMetadataBuilder", frame |-> 0, ann |-> <<>>,
               result |-> MB_init, data |-> NoMetadata, raised |-> "none"]
    /\ environment = NoEnvironment

\* stream(), category(), type(), coordinate(), stream_style(), pose()
BuilderCall ==
    /\ call.op # "none"
    /\ call.raised = "none"
    /\ Len(call.ann) < MaxBuilderCalls
    /\ \E c \in BuilderCallSet :
           \E raised \in FlushOutcomes(call.result, c) :
               call' = [call EXCEPT
                            !.op = c.op,
                            !.ann = Append(call.ann, c),
                            !.result = IF raised = "none"
                                       THEN MB_apply(call.result, c)
                                       ELSE call.result,
                            !.raised = raised]
    /\ UNCHANGED <<variant, frames, config, pc, index, metadata, xb, written,
                   object_trajectories, future_trajectories, anns_by_frame,
                   pose_by_frames, environment>>

\* get_data(): flush the pending stream and return the message
GetDataCall ==
    /\ call.op # "none"
    /\ call.raised = "none"
    /\ Len(call.ann) < MaxBuilderCalls
    /\ \E raised \in FlushOutcomes(call.result, GetData) :
           call' = [call EXCEPT
                        !.op = "get_data",
                        !.ann = Append(call.ann, GetData),
                        !.result = IF raised = "none"
                                   THEN MB_flush(call.result)
                                   ELSE call.result,
                        !.data = IF raised = "none"
                                 THEN MB_get_data(call.result)
                                 ELSE call.data,
                        !.raised = raised]
    /\ UNCHANGED <<variant, frames, config, pc, index, metadata, xb, written,
                   object_trajectories, future_trajectories, anns_by_frame,
                   pose_by_frames, environment>>

NextBuilder == BuilderCall \/ GetDataCall

SpecBuilder == InitBuilder /\ [][NextBuilder]_vars

----------------------------------------------------------------------------
(* Properties of the scene conversion *)

\* The frame (1-based) whose conversion filled xb: the one just written, or
\* the one whose conversion raised
ConvertedFrame == IF pc = "failed" THEN index + 1 ELSE index

Converted == xb.prims # <<>>

Triples(vs) ==
    {<<vs[3 * k - 2], vs[3 * k - 1], vs[3 * k]>> : k \in 1..(Len(vs) \div 3)}

AllAnnotations == UNION {Range(frames[f].anns) : f \in DOMAIN frames}

Unmapped(a) == MappingGet(a.category_name) = None

FootprintStreams ==
    {"/annotations/" \o CATEGORY[k] : k \in DOMAIN CATEGORY} \cup {"/object/boxes"}

Footprints(b) ==
    {k \in DOMAIN b.prims :
        b.prims[k].kind = "polygon" /\ b.prims[k].stream \in FootprintStreams}

\* C5: every footprint polygon emitted for an annotation of the converted
\* frame has the id of that annotation's instance, and no footprint polygon
\* has the id of a per-frame annotation record.
C5_FootprintIdIsInstanceId ==
    \A k \in Footprints(xb) :
        /\ \E a \in Range(frames[ConvertedFrame].anns) :
               xb.prims[k].id = Id(a.instance_token)
        /\ \A a \in AllAnnotations : xb.prims[k].id # Id(a.token)

\* What the primitives of a builder owe to annotation a: its ids, or a vertex
\* at one of the positions of its instance
Contributes(b, a) ==
    \E k \in DOMAIN b.prims :
        \/ b.prims[k].id[1] \in {a.token, a.instance_token}
        \/ /\ b.prims[k].kind \in {"polygon", "polyline", "circle"}
           /\ \E c \in AllAnnotations :
                  /\ c.instance_token = a.instance_token
                  /\ c.translation \in Triples(b.prims[k].vertices)

HasFootprint(b, a) ==
    \E k \in Footprints(b) : b.prims[k].id[1] \in {a.token, a.instance_token}

Images(b) == {k \in DOMAIN b.prims : b.prims[k].kind = "image"}
Points(b) == {k \in DOMAIN b.prims : b.prims[k].kind = "point"}

DeclaredOnce(stream) ==
    LET calls == MetadataCalls(variant, config)
    IN  /\ stream \in DOMAIN metadata.streams
        /\ Cardinality({i \in DOMAIN calls : calls[i] = Strm(stream)}) = 1

\* C8: every stream into which a frame conversion emitted a primitive or a
\* pose is declared in the metadata message, by exactly one stream() call of
\* the converters' get_metadata, and the metadata message is written before
\* every frame message.
C8_EmittedStreamsDeclared ==
    /\ \A i \in DOMAIN written :
           written[i].kind = "frame" => i > 1 /\ written[1].kind = "metadata"
    /\ Converted =>
           /\ written # <<>>
           /\ \A k \in DOMAIN xb.prims : DeclaredOnce(xb.prims[k].stream)

\* a closed scene whose last frame emitted a pose, a footprint and images
C8_Witness ==
    /\ pc = "closed"
    /\ Footprints(xb) # {}
    /\ Images(xb) # {}
    /\ \E k \in DOMAIN xb.prims : xb.prims[k].kind = "pose"

\* C9: the output is a prefix of  metadata, frame 0, frame 1, ..., close:
\* one metadata message, first; frame i at position i + 2; nothing after
\* the close.
C9_OutputOrder ==
    /\ pc \in {"frames", "closed", "failed"} => written # <<>>
    /\ \A i \in DOMAIN written :
           /\ (written[i].kind = "metadata") <=> (i = 1)
           /\ written[i].kind = "frame" => written[i].index = i - 2
           /\ written[i].kind = "close" => i = Len(written) /\ pc = "closed"
    /\ pc = "closed" => written[Len(written)].kind = "close"

\* a closed output holding at least two frame messages
C9_Witness ==
    /\ pc = "closed"
    /\ Len(written) >= 4
    /\ written[3].kind = "frame"

\* C10: the metadata start and end time, the message timestamp and the ego
\* pose timestamp of a converted frame, times 1e6, are the raw microsecond
\* timestamps of the dataset records.
C10_TimestampsDividedOnce ==
    /\ written # <<>> =>
           /\ IsSecondsOf(metadata.start_time, frames[1].timestamp)
           /\ IsSecondsOf(metadata.end_time, frames[Len(frames)].timestamp)
    /\ Converted =>
           /\ xb.timestamp # NoTime =>
                  IsSecondsOf(xb.timestamp, frames[ConvertedFrame].timestamp)
           /\ \A k \in DOMAIN xb.prims :
                  xb.prims[k].kind = "pose" =>
                      IsSecondsOf(xb.prims[k].timestamp,
                                  frames[ConvertedFrame].ego_pose.timestamp)

----------------------------------------------------------------------------
(* Properties of the tracks and of the trajectory methods *)

NonDecreasing(track) ==
    \A i \in 1..(Len(track) - 1) : track[i].timestamp <= track[i + 1].timestamp

StrictlyIncreasing(track) ==
    \A i \in 1..(Len(track) - 1) : track[i].timestamp < track[i + 1].timestamp

\* The annotations of an instance, as <<frame, position in the frame>>
AnnotationsOf(inst) ==
    UNION {{<<f, k>> : k \in {j \in DOMAIN frames[f].anns :
                                 frames[f].anns[j].instance_token = inst}} :
           f \in DOMAIN frames}

\* no two annotations of the instance carry the same frame timestamp
DistinctTimes(inst) ==
    \A p, q \in AnnotationsOf(inst) :
        p # q => frames[p[1]].timestamp # frames[q[1]].timestamp

BuiltTracks == {object_trajectories, future_trajectories}

Window(track, T) ==
    SelectSeq(track, LAMBDA x : T - TimeWindow <= x.timestamp /\ x.timestamp <= T)

CallFrame == frames[call.frame]

\* The frames convert_v3 looks ahead over from the called frame
LookaheadFrames == call.frame..Min(Len(frames), call.frame + V3Lookahead - 1)

PositionsInWindow(inst, T) ==
    {frames[fk[1]].anns[fk[2]].translation : fk \in
        {p \in AnnotationsOf(inst) :
            /\ T - TimeWindow <= frames[p[1]].timestamp
            /\ frames[p[1]].timestamp <= T}}

\* The positions (world frame) a builder's trajectories hold for an instance
EmittedPositions(b, inst) ==
    {p \in UNION {
        {IF variant = "v2" THEN VehicleToGlobal(t, CallFrame.ego_pose) ELSE t :
            t \in Triples(b.prims[k].vertices)} : k \in DOMAIN b.prims} :
        p[2] = inst}

----------------------------------------------------------------------------
(* Properties of the future-motion predictor *)

\* The velocity the predictor uses for annotation k of the called frame
UsedVelocity(k) ==
    LET track == future_trajectories[CallFrame.anns[k].instance_token]
    IN  EstimateVelocity(track, CurrentIndex(track, CallFrame.timestamp))

\* the rational point r is  position + velocity * (k / 2)
IsStep(r, position, velocity, k) ==
    \A c \in 1..3 :
        r.n[c] * 2 * velocity.d
            = r.d * (position[c] * 2 * velocity.d + velocity.n[c] * k)

\* The prediction convert_message makes for annotation k of the called frame
PredictionOf(k) ==
    PredictFuturePositions(future_trajectories, CallFrame.anns[k].instance_token,
                           CallFrame.timestamp)

FutureBoxes(b, inst) ==
    {j \in DOMAIN b.prims :
        /\ b.prims[j].stream = "/object/future_boxes"
        /\ b.prims[j].kind = "polygon"
        /\ b.prims[j].id[1] = inst}

FuturePaths(b, inst) ==
    {j \in DOMAIN b.prims :
        /\ b.prims[j].stream = "/object/future_trajectory"
        /\ b.prims[j].kind = "polyline"
        /\ b.prims[j].id[1] = inst}

\* C3: a prediction that is not skipped has exactly 6 steps, step k at
\* position_now + velocity * (k * 0.5 s) with the orientation of the current
\* sample (a declared velocity is used with its z component dropped); from
\* (0,0,0) at (2,0,0) m/s the steps are (1,0,0) ... (6,0,0); the footprint
\* convert_message emits is centred on step 6, (6,0,0) in that example when
\* the ego pose is the identity.
C3_ConstantVelocitySteps ==
    /\ (call.op = "predict_future_positions" /\ call.result # <<>>) =>
        LET ann == CallFrame.anns[call.ann]
            v == UsedVelocity(call.ann)
        IN  /\ Len(call.result) = 6
            /\ ann.velocity # <<0, 0, 0>> =>
                   v = [n |-> <<ann.velocity[1], ann.velocity[2], 0>>, d |-> 1]
            /\ \A k \in 1..6 :
                   /\ IsStep(call.result[k].translation, ann.translation, v, k)
                   /\ call.result[k].rotation = ann.rotation
            /\ (ann.translation = <<0, 0, 0>> /\ ann.velocity = <<2, 0, 0>>) =>
                   \A k \in 1..6 :
                       call.result[k].translation = [n |-> <<k, 0, 0>>, d |-> 1]
    /\ call.op = "future_convert_message" =>
        \A k \in DOMAIN CallFrame.anns :
            PredictionOf(k) # <<>> =>
                LET ann == CallFrame.anns[k]
                    last == PredictionOf(k)[6].translation
                    centre == Coordinates(GlobalToVehicleRV(last, CallFrame.ego_pose))
                IN  /\ \A j \in FutureBoxes(xb, ann.instance_token) :
                           SubSeq(xb.prims[j].vertices, 1, 3) = centre
                    /\ (/\ ann.translation = <<0, 0, 0>>
                        /\ ann.velocity = <<2, 0, 0>>
                        /\ CallFrame.ego_pose.translation = <<0, 0, 0>>
                        /\ CallFrame.ego_pose.rotation = 0) =>
                           centre = <<[n |-> 6, d |-> 1], [n |-> 0, d |-> 1],
                                      [n |-> 0, d |-> 1]>>

\* the prediction from (0,0,0) at a declared (2,0,0) m/s
C3_Witness ==
    /\ call.op = "predict_future_positions"
    /\ call.result # <<>>
    /\ CallFrame.anns[call.ann].translation = <<0, 0, 0>>
    /\ CallFrame.anns[call.ann].velocity = <<2, 0, 0>>
    /\ call.result[6].translation = [n |-> <<6, 0, 0>>, d |-> 1]

ConstantVelocityScenes == {ConstantVelocityScene(d) : d \in BOOLEAN}

\* C4 (as amended): in the 3-frame scene of an object moving 1 m/s along x,
\* frames 1 s apart, the predictor called at frame index 0 projects
\* (0.5,0,0) at step 1 when the annotations declare the velocity (1,0,0);
\* when they declare none it returns no prediction at frame index 0 (one
\* sample gives no finite difference) and at frame index 1 projects
\* (1.5,0,0) at step 1.
C4_FirstFramePrediction ==
    (call.op = "predict_future_positions" /\ frames \in ConstantVelocityScenes) =>
        /\ (frames = ConstantVelocityScene(TRUE) /\ call.frame = 1) =>
               /\ call.result # <<>>
               /\ call.result[1].translation = [n |-> <<1, 0, 0>>, d |-> 2]
        /\ (frames = ConstantVelocityScene(FALSE) /\ call.frame = 1) =>
               call.result = <<>>
        /\ (frames = ConstantVelocityScene(FALSE) /\ call.frame = 2) =>
               /\ call.result # <<>>
               /\ call.result[1].translation = [n |-> <<3, 0, 0>>, d |-> 2]

\* the predictor called at frame index 0 of the scene with declared velocity
C4_Witness ==
    /\ call.op = "predict_future_positions"
    /\ frames = ConstantVelocityScene(TRUE)
    /\ call.frame = 1
    /\ call.result # <<>>

\* C4 as stated: in the 3-frame scene, declared velocity or not, the
\* predictor called at frame index 0 projects (0.5,0,0) at step 1.
C4_ProjectsAtFrameZero ==
    (/\ call.op = "predict_future_positions"
     /\ frames \in ConstantVelocityScenes
     /\ call.frame = 1) =>
        /\ call.result # <<>>
        /\ call.result[1].translation = [n |-> <<1, 0, 0>>, d |-> 2]

\* C6 (as amended): convert_message emits, for every annotation of the frame
\* whose prediction is not skipped, exactly one polyline and exactly one
\* polygon, with the ids  <instance>_future  and  <instance>_future_box;
\* for a skipped one it emits nothing.
C6_OnePathOneBox ==
    call.op = "future_convert_message" =>
        /\ \A k \in DOMAIN CallFrame.anns :
            LET inst == CallFrame.anns[k].instance_token
            IN  IF PredictionOf(k) # <<>>
                THEN /\ Cardinality(FuturePaths(xb, inst)) = 1
                     /\ Cardinality(FutureBoxes(xb, inst)) = 1
                     /\ \A j \in FuturePaths(xb, inst) :
                            xb.prims[j].id = <<inst, "_future">>
                     /\ \A j \in FutureBoxes(xb, inst) :
                            xb.prims[j].id = <<inst, "_future_box">>
                ELSE FuturePaths(xb, inst) \cup FutureBoxes(xb, inst) = {}
        /\ \A j \in DOMAIN xb.prims :
               \E k \in DOMAIN CallFrame.anns :
                   j \in FuturePaths(xb, CallFrame.anns[k].instance_token)
                         \cup FutureBoxes(xb, CallFrame.anns[k].instance_token)

\* a frame of two instances, both predicted
C6_Witness ==
    /\ call.op = "future_convert_message"
    /\ Len(CallFrame.anns) = 2
    /\ Len(xb.prims) = 4

\* C6 as stated: the id of every primitive the predictor emits equals the
\* instance id of an annotation of the frame.
C6_IdsAreInstanceId ==
    call.op = "future_convert_message" =>
        \A j \in DOMAIN xb.prims :
            \E k \in DOMAIN CallFrame.anns :
                xb.prims[j].id = Id(CallFrame.anns[k].instance_token)

----------------------------------------------------------------------------
(* Properties of the batch over scenes *)

\* the batch positions whose scene name matches no scene of the record store
MissingRuns == {p \in DOMAIN config.scenes : config.scenes[p] \notin StoreScenes}

\* the messages written for the scene at batch position p
MessagesOfRun(p) == SelectSeq(written, LAMBDA m : m.run = p)

\* C11: when the requested scene name matches no scene of the record store,
\* the conversion of that scene ends in an exception (ValueError in
\* convert_v3 and converter_v2, IndexError in converter_v1) that leaves the
\* top-level function, and no metadata message and no frame message is
\* written for that scene.
C11_MissingSceneFatal ==
    \A p \in MissingRuns :
        /\ MessagesOfRun(p) = <<>>
        /\ index < p
        /\ pc # "closed"
        /\ (index = p - 1 /\ pc # "start") =>
               /\ pc = "failed"
               /\ call.op = "raise"
               /\ call.frame = p
               /\ call.result \in {"ValueError", "IndexError"}

\* a batch that wrote one scene and then reached a name matching no scene
C11_Witness ==
    /\ pc = "failed"
    /\ index >= 1
    /\ (index + 1) \in MissingRuns
    /\ MessagesOfRun(index) # <<>>
    /\ call.result \in {"ValueError", "IndexError"}

\* C12: once the batch has ended, every scene of the store listed after a
\* scene name that matches no scene has been converted and written (its
\* metadata message is in the output).
C12_LaterScenesConverted ==
    pc \in {"failed", "closed"} =>
        \A p \in MissingRuns : \A q \in DOMAIN config.scenes :
            (p < q /\ config.scenes[q] \in StoreScenes) =>
                \E k \in DOMAIN written :
                    written[k].run = q /\ written[k].kind = "metadata"

----------------------------------------------------------------------------
(* Properties of the frame conversion under absent sensor files *)

\* the environment with every sensor file of the frame on disk
AllPresent(env) == [env EXCEPT !.lidar = TRUE, !.cams = Range(CAMERA_SOURCES)]

\* the primitive comes from a sensor whose file is absent in env
FromAbsentSensor(q, env) ==
    \/ q.kind = "point" /\ ~env.lidar
    \/ q.kind = "image" /\
           \E c \in Range(CAMERA_SOURCES) \ env.cams : q.stream = "/camera/" \o Lower(c)

\* C13: when the LiDAR file or a camera image of a frame is absent, the frame
\* conversion does not fail because of it (a conversion that raised would
\* have raised with every file present too), and a converted frame holds
\* exactly the primitives it holds with every file present, less those of
\* the sensors whose file is absent.
C13_AbsentFileSkipped ==
    (environment # NoEnvironment /\ environment # AllPresent(environment)) =>
        /\ pc = "failed" => ~ConvertOf(index, AllPresent(environment)).ok
        /\ (pc = "frames" /\ index >= 1) =>
               LET full == ConvertOf(index - 1, AllPresent(environment)).xb
               IN  xb.prims = SelectSeq(full.prims,
                                        LAMBDA q : ~FromAbsentSensor(q, environment))

----------------------------------------------------------------------------
(* Properties of the frame transforms *)

\* C14: for any point P and any ego pose with a unit orientation quaternion,
\* vehicle_to_global_frame(global_to_vehicle_frame(P, pose), pose) = P and
\* global_to_vehicle_frame(vehicle_to_global_frame(P, pose), pose) = P: in a
\* run that applies the two transforms in turn, every point equals the point
\* two calls before it.
C14_RoundTrip ==
    /\ QSumSq(pose_by_frames[1].rotation.n) =
           pose_by_frames[1].rotation.d * pose_by_frames[1].rotation.d
    /\ \A k \in DOMAIN call.result :
           k + 2 \in DOMAIN call.result => call.result[k + 2] = call.result[k]

\* world -> vehicle -> world through a rotation that is no quarter turn and
\* a displaced ego, the vehicle-frame point having non-integer coordinates
C14_Witness ==
    /\ Len(call.result) = 3
    /\ call.op = "vehicle_to_global_frame"
    /\ pose_by_frames[1].rotation = Quaternion(<<3, 0, 0, 4>>, 5)
    /\ pose_by_frames[1].translation = <<1, -2, 0>>
    /\ call.result[2].d > 1
    /\ call.result[2] # call.result[1]

----------------------------------------------------------------------------
(* Properties of _union_ped *)

\* the long edges of a rectangle: its edges of greatest length
LongEdges(c) ==
    {e \in Edges(c) : \A f \in Edges(c) :
        Dot2(Sub2(e[2], e[1]), Sub2(e[2], e[1])) >= Dot2(Sub2(f[2], f[1]), Sub2(f[2], f[1]))}

\* two rectangles have a long edge in common
ShareLongEdge(a, b) ==
    \E e \in LongEdges(a) : \E f \in LongEdges(b) : {e[1], e[2]} = {f[1], f[2]}

\* the principal axes of two rectangles are at 45 degrees: |cos|^2 = 1/2
At45Degrees(a, b) ==
    LET u == get_rec_direction(a)
        v == get_rec_direction(b)
    IN  2 * Dot2(u, v) * Dot2(u, v) = Dot2(u, u) * Dot2(v, v)

\* the output polygons that cover input polygon i
PartsOf(i) == {k \in DOMAIN call.result : i \in call.result[k]}

\* C15: any two pedestrian-crossing polygons of the input list that share a
\* long edge and whose principal axes satisfy 1 - |cos| < 0.01 are covered
\* by one output polygon of _union_ped, whatever their order in the list,
\* and no output polygon covers two polygons whose principal axes are at 45
\* degrees.
C15_SharedEdgeMerged ==
    call.op = "_union_ped" =>
        LET ped_geoms == call.ann
        IN  /\ \A i, j \in DOMAIN ped_geoms :
                   (/\ i # j
                    /\ ShareLongEdge(ped_geoms[i], ped_geoms[j])
                    /\ DirectionsAligned(get_rec_direction(ped_geoms[i]),
                                         get_rec_direction(ped_geoms[j])))
                   => PartsOf(i) \cap PartsOf(j) # {}
            /\ \A i, j \in DOMAIN ped_geoms :
                   At45Degrees(ped_geoms[i], ped_geoms[j]) => PartsOf(i) \cap PartsOf(j) = {}

----------------------------------------------------------------------------
(* Properties of the emitted vertex lists *)

Lines(b) == {k \in DOMAIN b.prims : b.prims[k].kind \in {"polygon", "polyline"}}

\* C16: the flat vertex list of every polygon and polyline primitive in the
\* builder has a length that is a multiple of 3, the future-footprint
\* polygon of the predictor included.
C16_VerticesInTriples ==
    \A k \in Lines(xb) : Len(xb.prims[k].vertices) % 3 = 0

ObjectTrajectoryStreams ==
    {"/annotations/" \o CATEGORY[k] \o "/trajectory" : k \in DOMAIN CATEGORY}
        \cup {"/object/trajectory"}

ObjectTrajectories(b) ==
    {k \in DOMAIN b.prims :
        b.prims[k].kind = "polyline" /\ b.prims[k].stream \in ObjectTrajectoryStreams}

\* C17: no object-trajectory polyline of fewer than 2 points (6 numbers) is
\* in the builder of a converted frame, and a frame is not failed for a
\* short trajectory.
C17_NoShortTrajectory ==
    \A k \in ObjectTrajectories(xb) : Len(xb.prims[k].vertices) >= 6

----------------------------------------------------------------------------
(* Properties of the predictor's skipped instances *)

\* The track of annotation k of the called frame and the position of the
\* current sample in it
TrackOf(k) == future_trajectories[CallFrame.anns[k].instance_token]
SamplesUpTo(k) == CurrentIndex(TrackOf(k), CallFrame.timestamp)

\* microseconds between the current sample and the oldest of the (at most
\* three) samples looked back over
Elapsed(k) ==
    LET cur == SamplesUpTo(k)
    IN  TrackOf(k)[cur].timestamp - TrackOf(k)[cur - Min(3, cur) + 1].timestamp

NoUsableVelocity(k) ==
    /\ CallFrame.anns[k].velocity = <<0, 0, 0>>
    /\ \/ SamplesUpTo(k) < 2
       \/ Elapsed(k) < 10000

Stationary(k) == ~NoUsableVelocity(k) /\ NormBelowTenth(UsedVelocity(k))

Skipped(k) == NoUsableVelocity(k) \/ Stationary(k)

\* C18: in convert_message, an instance with no usable velocity (no declared
\* velocity and fewer than 2 samples up to the current one, or a look-back
\* of less than 0.01 s) or with a speed below 0.1 m/s gets no future polyline
\* and no future polygon, and every other instance of the frame, before or
\* after it, gets one of each.
C18_SkippedEmitNothing ==
    call.op = "future_convert_message" =>
        \A k \in DOMAIN CallFrame.anns :
            LET inst == CallFrame.anns[k].instance_token
            IN  IF Skipped(k)
                THEN /\ FuturePaths(xb, inst) = {}
                     /\ FutureBoxes(xb, inst) = {}
                ELSE /\ Cardinality(FuturePaths(xb, inst)) = 1
                     /\ Cardinality(FutureBoxes(xb, inst)) = 1

\* a frame whose first instance is skipped for a look-back under 0.01 s and
\* whose second instance is predicted
C18_Witness ==
    /\ call.op = "future_convert_message"
    /\ Len(CallFrame.anns) = 2
    /\ NoUsableVelocity(1)
    /\ SamplesUpTo(1) >= 2
    /\ ~Skipped(2)
    /\ FuturePaths(xb, CallFrame.anns[2].instance_token) # {}

----------------------------------------------------------------------------
(* Properties of the ego trajectory *)

EgoTrajectories(b) ==
    {k \in DOMAIN b.prims :
        /\ b.prims[k].kind = "polyline"
        /\ b.prims[k].stream \in {"/vehicle/trajectory", "/ego/trajectory"}}

\* the lookahead count of each converter
LookaheadCount == IF variant = "v1" THEN 7 ELSE 6

\* the flat list of the ego positions of frames first .. last - 1 (0-based)
PositionsOfFrames(first, last) ==
    Flatten([k \in 1..(last - first) |-> frames[first + k].ego_pose.translation])

\* C19 (as amended): at frame index i, converter_v1 (N = 7) and convert_v3
\* (N = 6) emit one ego trajectory holding the ego positions of frames
\* i .. min(i + N, F) - 1 in order: min(N, F - i) points, none of a frame
\* before i; converter_v2 emits a trajectory only when
\* show_vehicle_trajectory is set and it holds the positions of frames
\* 0 .. min(i + 6, F) - 1, the past frames included.
C19_EgoTrajectoryFrames ==
    call.op = "pose_convert" =>
        LET i == call.frame - 1
            end == Min(i + LookaheadCount, Len(frames))
        IN  /\ variant \in {"v1", "v3"} =>
                /\ Cardinality(EgoTrajectories(xb)) = 1
                /\ \A k \in EgoTrajectories(xb) :
                       /\ xb.prims[k].vertices = PositionsOfFrames(i, end)
                       /\ Len(xb.prims[k].vertices) =
                              3 * Min(LookaheadCount, Len(frames) - i)
            /\ variant = "v2" =>
                /\ Cardinality(EgoTrajectories(xb)) =
                       IF config.show_vehicle_trajectory THEN 1 ELSE 0
                /\ \A k \in EgoTrajectories(xb) :
                       xb.prims[k].vertices = PositionsOfFrames(0, end)

\* convert_v3 at frame index 1 of an 8-frame scene: the lookahead cuts the
\* trajectory to 6 points, before the end of the scene
C19_Witness ==
    /\ call.op = "pose_convert"
    /\ variant = "v3"
    /\ Len(frames) = 8
    /\ call.frame = 2
    /\ \E k \in EgoTrajectories(xb) : Len(xb.prims[k].vertices) = 18

\* C19 as stated: the ego trajectory emitted at frame index i holds exactly
\* the ego positions of frames i .. min(i + N, F) - 1.
C19_StartsAtCurrentFrame ==
    call.op = "pose_convert" =>
        \A k \in EgoTrajectories(xb) :
            xb.prims[k].vertices =
                PositionsOfFrames(call.frame - 1,
                                  Min(call.frame - 1 + LookaheadCount, Len(frames)))

----------------------------------------------------------------------------
(* Properties of the per-frame annotation conversion *)

FootprintsOf(b, a) ==
    {k \in Footprints(b) : b.prims[k].id[1] \in {a.token, a.instance_token}}

SensorsPresent(env) == env.lidar /\ env.cams = Range(CAMERA_SOURCES)

\* converter_v2 has no category table: every annotation is converted
MappedIn(v, a) == v = "v2" \/ ~Unmapped(a)

\* C20: with every sensor file present, the conversion of a frame raises no
\* error and the builder holds exactly one footprint polygon for every
\* annotation of the frame whose category is mapped.
C20_OneFootprintPerAnnotation ==
    (Converted /\ SensorsPresent(environment)) =>
        /\ pc # "failed"
        /\ \A a \in Range(frames[ConvertedFrame].anns) :
               MappedIn(variant, a) => Cardinality(FootprintsOf(xb, a)) = 1

----------------------------------------------------------------------------
(* Properties of the footprint polygon *)

\* vertex m (1-based) of a flat vertex list
VertexAt(vs, m) == <<vs[3 * m - 2], vs[3 * m - 1], vs[3 * m]>>

\* C21: every footprint polygon in the builder has 5 vertices, the last equal
\* to the first, and the footprints of two annotations of the frame with the
\* same size and orientation differ, vertex by vertex, by the difference of
\* their centres (so they differ when the centres do).
C21_FootprintFollowsCenter ==
    Converted =>
        /\ \A k \in Footprints(xb) :
               /\ Len(xb.prims[k].vertices) = 15
               /\ VertexAt(xb.prims[k].vertices, 5) = VertexAt(xb.prims[k].vertices, 1)
        /\ \A a, c \in Range(frames[ConvertedFrame].anns) :
               (a.size = c.size /\ a.rotation = c.rotation) =>
                   \A k \in FootprintsOf(xb, a) : \A j \in FootprintsOf(xb, c) :
                       \A m \in 1..5 :
                           VSub(VertexAt(xb.prims[k].vertices, m),
                                VertexAt(xb.prims[j].vertices, m))
                               = VSub(a.translation, c.translation)

----------------------------------------------------------------------------
(* Properties of _estimate_velocity *)

\* The track, the current sample and the oldest sample looked back to in the
\* call of _estimate_velocity
CallTrack == future_trajectories[call.ann]
CallStart == call.frame - Min(3, call.frame) + 1
CallDisplacement ==
    VSub(CallTrack[call.frame].translation, CallTrack[CallStart].translation)
CallElapsed == CallTrack[call.frame].timestamp - CallTrack[CallStart].timestamp

\* v is displacement / elapsed seconds in x and y, with z = 0
IsFiniteDifference(v, displacement, elapsed) ==
    /\ v # NoVelocity
    /\ v.n[3] = 0
    /\ \A c \in 1..2 : v.n[c] * elapsed = v.d * displacement[c] * Micro

\* C22 (as amended): a declared velocity of non-zero magnitude on the current
\* sample is returned with z = 0 whatever the history; otherwise, with fewer
\* than 2 samples up to the current one or less than 0.01 s between the
\* oldest sample looked back to and the current one there is no velocity;
\* otherwise the result is (position[cur] - position[start]) /
\* (t[cur] - t[start]) with z = 0, start = cur - min(3, cur + 1) + 1.
C22_VelocityPriority ==
    call.op = "estimate_velocity" =>
        LET declared == CallTrack[call.frame].velocity
        IN  IF declared # <<0, 0, 0>>
            THEN call.result = [n |-> <<declared[1], declared[2], 0>>, d |-> 1]
            ELSE IF call.frame < 2 \/ CallElapsed < 10000
            THEN call.result = NoVelocity
            ELSE IsFiniteDifference(call.result, CallDisplacement, CallElapsed)

\* the fourth sample of a track: the estimate looks back to the second
\* sample, and the first one would give another velocity
C22_Witness ==
    /\ call.op = "estimate_velocity"
    /\ call.frame = 4
    /\ CallTrack[4].velocity = <<0, 0, 0>>
    /\ IsFiniteDifference(call.result, CallDisplacement, CallElapsed)
    /\ ~IsFiniteDifference(call.result,
                           VSub(CallTrack[4].translation, CallTrack[1].translation),
                           CallTrack[4].timestamp - CallTrack[1].timestamp)

\* C22 as stated: without a declared velocity the result is always the
\* finite difference over the look-back.
C22_AlwaysFiniteDifference ==
    call.op = "estimate_velocity" =>
        LET declared == CallTrack[call.frame].velocity
        IN  IF declared # <<0, 0, 0>>
            THEN call.result = [n |-> <<declared[1], declared[2], 0>>, d |-> 1]
            ELSE IsFiniteDifference(call.result, CallDisplacement, CallElapsed)

----------------------------------------------------------------------------
(* Properties of the converter order within a frame *)

\* what the pose converter writes: the ego pose and the ego trajectory
PoseOutput(b) == {k \in DOMAIN b.prims : b.prims[k].kind = "pose"} \cup EgoTrajectories(b)

\* C23: in the builder of a converted frame the ego pose is the first entry,
\* there is one ego pose, and everything the pose converter wrote precedes
\* everything any other converter wrote, in every variant.
C23_PoseFirst ==
    Converted =>
        /\ xb.prims[1].kind = "pose"
        /\ Cardinality({k \in DOMAIN xb.prims : xb.prims[k].kind = "pose"}) = 1
        /\ \A k \in PoseOutput(xb) : \A j \in DOMAIN xb.prims \ PoseOutput(xb) : k < j

\* a convert_v3 frame with the lidar sweep, a footprint and every camera
C23_Witness ==
    /\ Converted
    /\ variant = "v3"
    /\ Points(xb) # {}
    /\ Footprints(xb) # {}
    /\ Images(xb) # {}

----------------------------------------------------------------------------
(* Properties of the order of initialize() and convert_message() *)

\* the track of every annotation of every frame holds that frame's sample
HoldsAllFrames(tracks) ==
    \A f \in DOMAIN frames : \A a \in Range(frames[f].anns) :
        /\ a.instance_token \in DOMAIN tracks
        /\ \E m \in DOMAIN tracks[a.instance_token] :
               /\ tracks[a.instance_token][m].timestamp = frames[f].timestamp
               /\ tracks[a.instance_token][m].translation = a.translation

AnyTrajectories(b) ==
    {k \in DOMAIN b.prims :
        b.prims[k].stream \in {"/object/trajectory", "/object/future_trajectory",
                               "/vehicle/trajectory"}}

\* C24: a convert_message call made before initialize() returns no message
\* and leaves no primitive, hence no trajectory, in any builder; a call that
\* converts a frame is made when the tracks of both trajectory converters
\* hold the samples of every frame of the scene.
C24_NoFrameBeforeTracks ==
    /\ pc = "start" => xb.prims = <<>>
    /\ call.op = "convert_message" =>
        /\ call.result.sample_count = 0 =>
               /\ call.result.message \in {"None", "AttributeError"}
               /\ xb.prims = <<>>
               /\ AnyTrajectories(xb) = {}
        /\ call.result.message \in {"message", "error"} =>
               /\ pc = "loaded"
               /\ call.result.sample_count = Len(frames)
               /\ variant = "v2" => /\ HoldsAllFrames(object_trajectories)
                                     /\ HoldsAllFrames(future_trajectories)

\* convert_message(0) called on a scene with annotations before initialize()
C24_Witness ==
    /\ pc = "start"
    /\ call.op = "convert_message"
    /\ variant = "v2"
    /\ call.frame = 0
    /\ call.result.message = "None"
    /\ \E f \in DOMAIN frames : frames[f].anns # <<>>

----------------------------------------------------------------------------
(* Properties of converting frames in any order *)

\* the conversion of frame i by a converter that has just been initialized
FreshConvert(i, env) ==
    CASE variant = "v3" -> V3ConvertFrame(frames, i, env)
      [] variant = "v1" ->
            V1ConvertMessage(frames, V1PoseByFrames(frames), V1AnnsByFrame(frames),
                             i, env)
      [] variant = "v2" ->
            V2ConvertMessage(frames, V2PosesByFrame(frames),
                             BuildObjectTrajectories(frames),
                             BuildObjectTrajectories(frames), config, i, env)

\* C25: after any number of conversions, in any order, the converter state
\* (ego poses, object tracks, per-frame annotations, metadata) is what
\* initialize() left, and the builder of the frame converted last holds what
\* a newly initialized converter produces for that frame.
C25_ConvertLeavesState ==
    /\ pc = "loaded" =>
        /\ object_trajectories =
               IF variant = "v2" THEN BuildObjectTrajectories(frames) ELSE <<>>
        /\ future_trajectories =
               IF variant = "v2" THEN BuildObjectTrajectories(frames) ELSE <<>>
        /\ anns_by_frame = IF variant = "v1" THEN V1AnnsByFrame(frames) ELSE <<>>
        /\ pose_by_frames = CASE variant = "v1" -> V1PoseByFrames(frames)
                              [] variant = "v2" -> V2PosesByFrame(frames)
                              [] OTHER -> <<>>
        /\ variant # "v2" => metadata = GetMetadata(variant, frames, config)
    /\ (call.op = "convert_message" /\ call.result.message \in {"message", "error"}) =>
        xb = FreshConvert(call.frame, environment).xb

\* frame 0 of a longer scene converted, whatever was converted before, with
\* an object trajectory in its builder
C25_Witness ==
    /\ pc = "loaded"
    /\ call.op = "convert_message"
    /\ call.frame = 0
    /\ call.result.message = "message"
    /\ Len(frames) > 1
    /\ ObjectTrajectories(xb) # {}

----------------------------------------------------------------------------
(* Properties of split_collections *)

\* C26: every geometry split_collections returns is a LineString or a
\* Polygon that is valid and not empty, for every accepted input type; a
\* multi-part input is never among the returned geometries.
C26_SinglePartsOnly ==
    call.op = "split_collections" =>
        /\ \A k \in DOMAIN call.result :
               /\ call.result[k].geom_type \in {"LineString", "Polygon"}
               /\ call.result[k].is_valid
               /\ ~call.result[k].is_empty
        /\ call.ann.geom_type \notin {"LineString", "Polygon"} =>
               \A k \in DOMAIN call.result : call.result[k] # call.ann

----------------------------------------------------------------------------
(* Properties of get_ped_crossing_contour *)

\* C27: the call raises nothing; with no line piece of the exterior inside
\* the region it returns no line, and otherwise it returns one line that
\* holds the vertices of every piece.
C27_AtMostOneLine ==
    call.op = "get_ped_crossing_contour" =>
        /\ call.result.raised = "none"
        /\ call.ann.lines = <<>> => call.result.line = <<>>
        /\ call.ann.lines # <<>> =>
               \A k \in DOMAIN call.ann.lines :
                   Range(call.ann.lines[k]) \subseteq Range(call.result.line)

----------------------------------------------------------------------------
(* Declared primitive types against emitted primitives *)

PrimitiveKinds == {"polygon", "polyline", "point", "circle", "image"}

DeclaredType(stream) ==
    IF stream \in DOMAIN metadata.streams
    THEN metadata.streams[stream].primitive_type
    ELSE None

\* C28: every primitive emitted at frame time into a stream has the kind
\* (polygon, polyline, point, circle, image) that get_metadata declared as
\* the primitive type of that stream.
C28_KindIsDeclaredType ==
    Converted =>
        \A k \in DOMAIN xb.prims :
            xb.prims[k].kind \in PrimitiveKinds =>
                DeclaredType(xb.prims[k].stream) = Upper(xb.prims[k].kind)

----------------------------------------------------------------------------
(* Scoping of the metadata builder's attributes *)

Greatest(S) == CHOOSE m \in S : \A x \in S : x <= m

\* the stream selected when the i-th call of h is made
Scope(h, i) ==
    LET before == {j \in 1..(i - 1) : h[j].op \in {"stream", "get_data"}}
    IN  IF before = {} THEN None
        ELSE IF h[Greatest(before)].op = "stream" THEN h[Greatest(before)].arg
        ELSE None

\* the calls of attribute op made while stream X is selected
InScope(h, X, op) == {i \in DOMAIN h : h[i].op = op /\ Scope(h, i) = X}

LastArg(h, X, op) ==
    IF InScope(h, X, op) = {} THEN None ELSE h[Greatest(InScope(h, X, op))].arg

Selected(h) == {h[i].arg : i \in {j \in DOMAIN h : h[j].op = "stream"}}

\* C29: after get_data() the record of stream X holds exactly the
\* attributes set while X was selected (the last value of each; a type only
\* if a type() call was made while X was selected), a record exists for
\* every selected stream and for no other, and no stream is pending.
C29_AttributesScoped ==
    (call.op = "get_data" /\ call.raised = "none") =>
        LET h == call.ann
            streams == call.data.streams
        IN  /\ DOMAIN streams = Selected(h)
            /\ \A X \in DOMAIN streams :
                   /\ streams[X].category =
                          IF LastArg(h, X, "category") = None THEN 0
                          ELSE CategoryValue(LastArg(h, X, "category"))
                   /\ streams[X].coordinate = LastArg(h, X, "coordinate")
                   /\ streams[X].style = LastArg(h, X, "stream_style")
                   /\ streams[X].pose = LastArg(h, X, "pose")
                   /\ streams[X].primitive_type \in
                          {None} \cup {Upper(h[i].arg) : i \in InScope(h, X, "type")}
                   /\ streams[X].scalar_type \in
                          {None} \cup {Upper(h[i].arg) : i \in InScope(h, X, "type")}
            /\ call.result.stream_id = None
            /\ call.result.temp_stream = EmptyStream
            /\ call.result.temp_type = None

----------------------------------------------------------------------------
(* The grouping of _union_ped *)

\* final_pgeom of the call, each group as the set of the input positions
\* unioned into it
PedGroups == UnionLoop(call.ann, 1, DOMAIN call.ann, <<>>)

\* the polygon a group started from: the first of the list in it
Seed(group) == CHOOSE i \in group : \A j \in group : i <= j

\* C30: _union_ped puts every input polygon into exactly one group, as its
\* seed or unioned into it; a polygon unioned into a group is a candidate
\* of the spatial index for the group's seed (their envelopes intersect) and
\* its direction is within 0.01 of parallel to the seed's; the groups start
\* at seeds in list order, none of them a polygon consumed by an earlier
\* group; and the returned parts are pieces of the groups.
C30_EachPolygonOnce ==
    call.op = "_union_ped" =>
        LET ped_geoms == call.ann
            final_pgeom == PedGroups
        IN  /\ \A j \in DOMAIN ped_geoms :
                   Cardinality({k \in DOMAIN final_pgeom : j \in final_pgeom[k]}) = 1
            /\ \A k \in DOMAIN final_pgeom :
                   /\ final_pgeom[k] # {}
                   /\ final_pgeom[k] \subseteq DOMAIN ped_geoms
                   /\ \A j \in final_pgeom[k] \ {Seed(final_pgeom[k])} :
                          /\ EnvelopesIntersect(ped_geoms[Seed(final_pgeom[k])],
                                                ped_geoms[j])
                          /\ DirectionsAligned(
                                 get_rec_direction(ped_geoms[Seed(final_pgeom[k])]),
                                 get_rec_direction(ped_geoms[j]))
                   /\ \A m \in DOMAIN final_pgeom :
                          m < k => /\ Seed(final_pgeom[m]) < Seed(final_pgeom[k])
                                   /\ Seed(final_pgeom[k]) \notin final_pgeom[m]
            /\ \A r \in DOMAIN call.result :
                   \E k \in DOMAIN final_pgeom : call.result[r] \subseteq final_pgeom[k]
            /\ UNION Range(call.result) = DOMAIN ped_geoms

\* a call that unioned a polygon into a seed's group and left another
\* polygon, parallel to the seed but no candidate of the index, to a group
\* of its own
C30_Witness ==
    /\ call.op = "_union_ped"
    /\ \E k, m \in DOMAIN PedGroups :
           /\ k # m
           /\ Cardinality(PedGroups[k]) >= 2
           /\ DirectionsAligned(
                  get_rec_direction(call.ann[Seed(PedGroups[k])]),
                  get_rec_direction(call.ann[Seed(PedGroups[m])]))
           /\ ~EnvelopesIntersect(call.ann[Seed(PedGroups[k])],
                                  call.ann[Seed(PedGroups[m])])

====
